---- MODULE Spec2Model ----
(***************************************************************************)
(* Swasth Khet: the carbon-footprint scoring engine                        *)
(* (CarbonFootprintService, src/unnamed/part_003 lines 195-396).           *)
(*                                                                         *)
(* Numbers.  The engine works on JavaScript numbers and rounds its results *)
(* to two decimals (Math.round(x * 100) / 100).  The model is fixed point: *)
(* a quantity, an area, an hour count, an emission factor and a rounded    *)
(* footprint are integers counting hundredths (4.5 is 450, 0.01 kg is 1),  *)
(* a product of two of them counts 1/10^4 and a product of three counts    *)
(* 1/10^6.  The arithmetic is exact decimal arithmetic.  A double differs  *)
(* from it only in which way Math.round goes on an exact decimal tie       *)
(* (x.xx5): the model sends every tie up, and the properties below that    *)
(* speak of rounding ask for a nearest value without fixing the way of a   *)
(* tie.  A value that JavaScript computes as NaN is the tagged value NaN.  *)
(*                                                                         *)
(* Objects.  A JavaScript object is a function whose domain is the set of  *)
(* keys the object has, so an absent optional field is a key outside the   *)
(* domain.                                                                 *)
(***************************************************************************)
EXTENDS Integers, Sequences, FiniteSets, TLC

VARIABLES emissionFactors, op, args, pc, result

\* a session of invocations: who made the running one, the invocations that
\* returned so far, and what each call of SessionCalls returns when it is the
\* only one made
VARIABLES caller, log, alone

\* the document store behind the farm, crop and marketplace routes (the
\* collections of the models Farm, Crop and Marketplace) and the response to
\* the last request
VARIABLES Farm, Crop, Marketplace, res

engineVars == <<emissionFactors, op, args, pc, result, caller, log, alone>>

storeVars == <<Farm, Crop, Marketplace, res>>

\* the AuthProvider of the client: its state (user, token, loading), the
\* localStorage of the browser, where loadUser and each call of login and
\* register stand, and what the last login or register that resolved set
\* if neither logout, login nor register was invoked since
VARIABLES user, token, loading, localStorage, loadUser, calls, session

authVars == <<user, token, loading, localStorage, loadUser, calls, session>>

vars == <<engineVars, storeVars, authVars>>

(***************************************************************************)
(* Bounds of the input sets.                                               *)
(***************************************************************************)
\* small quantities range over 0 .. MaxQty hundredths
MaxQty == 1
\* cropDiversity ranges over 1 .. MaxCropDiversity
MaxCropDiversity == 4
\* footprints handed to calculateCarbonReduction range over 0 .. MaxFootprint
MaxFootprint == 8
\* a session is MaxCalls invocations made by NumCallers callers
MaxCalls == 3
NumCallers == 2
\* the store is used by NumUsers users, who make MaxRequests requests and
\* create at most MaxFarms farms, MaxCrops crops and MaxListings listings;
\* areas range over 1 .. MaxArea
NumUsers == 2
MaxRequests == 4
MaxFarms == 2
MaxCrops == 2
MaxListings == 1
MaxArea == 2
\* price ranges are asked for the crops priced up to MaxBasePrice
MaxBasePrice == 3000

(***************************************************************************)
(* Fixed point and JavaScript helpers.                                     *)
(***************************************************************************)
\* two decimals: the 100 of Math.round(x * 100) / 100
Scale == 100

\* Math.round(n / d) for d > 0: the nearest integer, a tie going up
\* (\div rounds toward minus infinity)
MathRound(n, d) == (2 * n + d) \div (2 * d)

\* Math.round(x * 100) / 100 for x given in 1/10^6, result in hundredths
Round2(micro) == MathRound(micro, Scale * Scale)

Min(a, b) == IF a <= b THEN a ELSE b
Max(a, b) == IF a >= b THEN a ELSE b

EmptyObj == [k \in {} |-> 0]

Has(obj, key) == key \in DOMAIN obj

\* obj.key || 0 for a numeric field
OrZero(obj, key) == IF Has(obj, key) THEN obj[key] ELSE 0

\* a JavaScript number that may be NaN (only where the code can produce NaN)
Num(n) == [kind |-> "number", val |-> n]
NaN == [kind |-> "NaN", val |-> 0]

(***************************************************************************)
(* static emissionFactors, in hundredths of kg CO2 per unit.               *)
(***************************************************************************)
EmissionFactorTable ==
  [ synthetic_fertilizer |-> 450,
    organic_fertilizer   |-> 80,
    urea                 |-> 320,
    dap                  |-> 280,
    potash               |-> 120,
    chemical_pesticide   |-> 250,
    neem_oil             |-> 30,
    organic_pesticide    |-> 40,
    diesel               |-> 268,
    petrol               |-> 231,
    electricity          |-> 95,
    flood_irrigation     |-> 50,
    drip_irrigation      |-> 15,
    sprinkler_irrigation |-> 25,
    manual_transport     |-> 0,
    bullock_cart         |-> 10,
    tractor              |-> 80,
    truck                |-> 60 ]

(***************************************************************************)
(* Input records.  Opt(key, vals) is the choice between leaving the        *)
(* optional field out and setting it to one of vals.                       *)
(***************************************************************************)
Opt(key, vals) == {EmptyObj} \cup {key :> v : v \in vals}

SmallQty == 0 .. MaxQty

\* { synthetic?, organic? } and { chemical?, organic? }
UsageGroup(k1, vals1, k2, vals2) ==
  {a @@ b : a \in Opt(k1, vals1), b \in Opt(k2, vals2)}

\* { diesel?, petrol?, electricity? }
FuelGroup(diesels, petrols, electricities) ==
  {d @@ p @@ e : d \in Opt("diesel", diesels), p \in Opt("petrol", petrols),
                 e \in Opt("electricity", electricities)}

UsageRecords(areas, ferts, pests, fuels, hours, types, transports, flags, diversities) ==
  {("area" :> a) @@ f @@ p @@ fu @@ h @@ t @@ tr @@ c @@ m @@ d :
      a \in areas,
      f \in Opt("fertilizerUsage", ferts),
      p \in Opt("pesticideUsage", pests),
      fu \in Opt("fuelUsage", fuels),
      h \in Opt("irrigationHours", hours),
      t \in Opt("irrigationType", types),
      tr \in Opt("transportMethod", transports),
      c \in Opt("conservationAgriculture", flags),
      m \in Opt("mulching", flags),
      d \in Opt("cropDiversity", diversities)}

\* the records calculateSustainabilityScore is applied to
ScoreRecords ==
  UsageRecords({100},
               UsageGroup("synthetic", SmallQty \cup {10000}, "organic", {4999, 5000}),
               UsageGroup("chemical", SmallQty, "organic", {4999, 5000}),
               {}, {}, {"drip", "flood"}, {}, BOOLEAN, 1 .. MaxCropDiversity)

\* the records calculateBaselineFootprint is applied to; "canal" is no value
\* of the irrigationType enum, "diesel" is one that is a key of emissionFactors
BaselineRecords ==
  UsageRecords({100, 250},
               UsageGroup("synthetic", SmallQty \cup {10000}, "organic", {5000}),
               UsageGroup("chemical", SmallQty, "organic", {300}),
               FuelGroup(SmallQty, {100}, {}) \cup FuelGroup({}, {}, {95}),
               {0, 33, 1000},
               {"flood", "drip", "sprinkler", "rainfed", "canal", "diesel"},
               {}, {}, {})

\* the records calculateEcofriendlyFootprint is applied to
EcofriendlyRecords ==
  UsageRecords({100, 250},
               UsageGroup("synthetic", {10000}, "organic", SmallQty \cup {5000}),
               UsageGroup("chemical", {100}, "organic", SmallQty),
               FuelGroup({100}, {}, {}),
               {0, 33, 1000},
               {"flood", "drip", "sprinkler"},
               {"manual", "tractor"}, {}, {})

\* the records getEcofriendlyRecommendations is applied to
RecommendationRecords ==
  UsageRecords({100, 250},
               UsageGroup("synthetic", SmallQty \cup {10000}, "organic", {5000}),
               UsageGroup("chemical", SmallQty \cup {10000}, "organic", {}),
               {},
               {0, 33, 1000},
               {"flood", "drip", "sprinkler", "rainfed"},
               {}, {TRUE}, {})

\* the footprints calculateCarbonReduction is applied to (hundredths of kg)
FootprintValues == (0 .. MaxFootprint) \cup {10000}

\* the reductions calculateCarbonCreditPotential is applied to (hundredths of kg)
ReductionValues == (0 .. MaxFootprint) \cup {49, 50, 125, 100000, 123456}

(***************************************************************************)
(* calculateBaselineFootprint                                              *)
(***************************************************************************)
\* this.emissionFactors[farmData.irrigationType] || 0.5
IrrigationEmissionFactor(irrigationType) ==
  IF Has(emissionFactors, irrigationType) /\ emissionFactors[irrigationType] # 0
  THEN emissionFactors[irrigationType]
  ELSE 50

\* farmData.irrigationHours && <typeCondition>
IrrigationApplies(farmData, typeCondition) ==
  /\ Has(farmData, "irrigationHours")
  /\ farmData.irrigationHours # 0
  /\ typeCondition

\* if (farmData.<group>) { total += (farmData.<group>.<field> || 0) * factor },
\* in 1/10^4
GroupEmission(farmData, group, field, factor) ==
  IF Has(farmData, group) THEN OrZero(farmData[group], field) * factor ELSE 0

BaselineFertilizer(farmData) ==
  GroupEmission(farmData, "fertilizerUsage", "synthetic", emissionFactors.synthetic_fertilizer)

BaselinePesticide(farmData) ==
  GroupEmission(farmData, "pesticideUsage", "chemical", emissionFactors.chemical_pesticide)

PetrolBaselineFuel(farmData) ==
  GroupEmission(farmData, "fuelUsage", "diesel", emissionFactors.diesel)
  + GroupEmission(farmData, "fuelUsage", "petrol", emissionFactors.petrol)

BaselineFuel(farmData) ==
  GroupEmission(farmData, "fuelUsage", "diesel", emissionFactors.diesel)

\* in 1/10^6
BaselineIrrigation(farmData) ==
  IF IrrigationApplies(farmData, Has(farmData, "irrigationType")
                                 /\ farmData.irrigationType # "")
  THEN farmData.irrigationHours * farmData.area
         * IrrigationEmissionFactor(farmData.irrigationType)
  ELSE 0

calculateBaselineFootprint(farmData) ==
  Round2((BaselineFertilizer(farmData) + BaselinePesticide(farmData)
          + BaselineFuel(farmData)) * Scale
         + BaselineIrrigation(farmData))

(***************************************************************************)
(* calculateEcofriendlyFootprint                                           *)
(***************************************************************************)
EcofriendlyFertilizer(farmData) ==
  GroupEmission(farmData, "fertilizerUsage", "organic", emissionFactors.organic_fertilizer)

EcofriendlyPesticide(farmData) ==
  GroupEmission(farmData, "pesticideUsage", "organic", emissionFactors.organic_pesticide)

AnyTypeEcofriendlyIrrigation(farmData) ==
  IF IrrigationApplies(farmData, Has(farmData, "irrigationType"))
  THEN farmData.irrigationHours * farmData.area * emissionFactors.drip_irrigation
  ELSE 0

\* in 1/10^6
EcofriendlyIrrigation(farmData) ==
  IF IrrigationApplies(farmData, Has(farmData, "irrigationType")
                                 /\ farmData.irrigationType = "drip")
  THEN farmData.irrigationHours * farmData.area * emissionFactors.drip_irrigation
  ELSE 0

\* if (farmData.transportMethod === 'manual') { totalFootprint += 0 }
EcofriendlyTransport(farmData) ==
  IF Has(farmData, "transportMethod") /\ farmData.transportMethod = "manual"
  THEN 0 ELSE 0

calculateEcofriendlyFootprint(farmData) ==
  Round2((EcofriendlyFertilizer(farmData) + EcofriendlyPesticide(farmData)) * Scale
         + EcofriendlyIrrigation(farmData) + EcofriendlyTransport(farmData))

(***************************************************************************)
(* calculateCarbonReduction                                                *)
(***************************************************************************)
FlooredCarbonReduction(baselineFootprint, ecofriendlyFootprint) ==
  IF baselineFootprint = 0 THEN 0
  ELSE ((baselineFootprint - ecofriendlyFootprint) * 100) \div baselineFootprint

IncreaseOverEcofriendly(baselineFootprint, ecofriendlyFootprint) ==
  IF baselineFootprint = 0 THEN 0
  ELSE MathRound((ecofriendlyFootprint - baselineFootprint) * 100, baselineFootprint)

calculateCarbonReduction(baselineFootprint, ecofriendlyFootprint) ==
  IF baselineFootprint = 0 THEN 0
  ELSE MathRound((baselineFootprint - ecofriendlyFootprint) * 100, baselineFootprint)

(***************************************************************************)
(* getEcofriendlyRecommendations                                           *)
(***************************************************************************)
\* const priorityOrder = { 'high': 1, 'medium': 2, 'low': 3 }
priorityOrder == [high |-> 1, medium |-> 2, low |-> 3]

ReversedComparePriority(a, b) == priorityOrder[b.priority] - priorityOrder[a.priority]

\* the comparator handed to Array.prototype.sort: negative when a goes first
ComparePriority(a, b) == priorityOrder[a.priority] - priorityOrder[b.priority]

\* Array.prototype.sort is stable: insert x behind every element that does
\* not compare greater than x
InsertSorted(sorted, x) ==
  LET before == {i \in 1 .. Len(sorted) : ComparePriority(sorted[i], x) <= 0}
      k      == IF before = {} THEN 0 ELSE CHOOSE i \in before : \A j \in before : j <= i
  IN  SubSeq(sorted, 1, k) \o <<x>> \o SubSeq(sorted, k + 1, Len(sorted))

\* recommendations.sort((a, b) => priorityOrder[a.priority] - priorityOrder[b.priority])
RECURSIVE StableSort(_)
StableSort(s) ==
  IF s = <<>> THEN <<>>
  ELSE InsertSorted(StableSort(SubSeq(s, 1, Len(s) - 1)), s[Len(s)])

\* Math.round(quantity * (from - to) * 100) / 100, in hundredths
SavingsOf(quantity, from, to) == Num(MathRound(quantity * (from - to), Scale))

\* Math.round(hours * area * (emissionFactors[type] - drip) * 100) / 100: the
\* table has no key "flood" or "sprinkler", so the difference is NaN
IrrigationSavings(farmData) ==
  IF Has(farmData, "irrigationHours") /\ Has(emissionFactors, farmData.irrigationType)
  THEN Num(Round2(farmData.irrigationHours * farmData.area
                  * (emissionFactors[farmData.irrigationType]
                     - emissionFactors.drip_irrigation)))
  ELSE NaN

FertilizerRecommendation(farmData) ==
  [ practice       |-> "Switch to organic fertilizer",
    impact         |-> "Reduce emissions by 82% for fertilizer",
    savings        |-> SavingsOf(farmData.fertilizerUsage.synthetic,
                                 emissionFactors.synthetic_fertilizer,
                                 emissionFactors.organic_fertilizer),
    priority       |-> "high",
    implementation |-> "Start using compost, vermicompost, or FYM" ]

PesticideRecommendation(farmData) ==
  [ practice       |-> "Use organic pest control",
    impact         |-> "Reduce emissions by 84% for pesticide",
    savings        |-> SavingsOf(farmData.pesticideUsage.chemical,
                                 emissionFactors.chemical_pesticide,
                                 emissionFactors.organic_pesticide),
    priority       |-> "high",
    implementation |-> "Use neem oil, manual picking, beneficial insects" ]

IrrigationRecommendation(farmData) ==
  [ practice       |-> "Install drip irrigation",
    impact         |-> "Reduce irrigation emissions by 70%",
    savings        |-> IrrigationSavings(farmData),
    priority       |-> "high",
    implementation |-> "Investment required, but saves water and reduces labor" ]

CropRotationRecommendation ==
  [ practice       |-> "Practice crop rotation",
    impact         |-> "Improve soil health, reduce disease, 10-15% yield improvement",
    priority       |-> "medium",
    implementation |-> "Rotate with legumes to fix nitrogen naturally" ]

ConservationRecommendationWithSavings ==
  [ practice       |-> "Adopt conservation agriculture",
    impact         |-> "Reduce fuel emissions, improve soil carbon",
    savings        |-> Num(0),
    priority       |-> "high",
    implementation |-> "Reduce/zero tilling, mulching, crop residue management" ]

ConservationRecommendation ==
  [ practice       |-> "Adopt conservation agriculture",
    impact         |-> "Reduce fuel emissions, improve soil carbon",
    priority       |-> "medium",
    implementation |-> "Reduce/zero tilling, mulching, crop residue management" ]

\* farmData.<group>?.<field> > 0
PositiveField(farmData, group, field) ==
  /\ Has(farmData, group)
  /\ Has(farmData[group], field)
  /\ farmData[group][field] > 0

FertilizerRule(farmData) ==
  IF PositiveField(farmData, "fertilizerUsage", "synthetic")
  THEN <<FertilizerRecommendation(farmData)>> ELSE <<>>

PesticideRule(farmData) ==
  IF PositiveField(farmData, "pesticideUsage", "chemical")
  THEN <<PesticideRecommendation(farmData)>> ELSE <<>>

IrrigationRule(farmData) ==
  IF Has(farmData, "irrigationType") /\ farmData.irrigationType \in {"flood", "sprinkler"}
  THEN <<IrrigationRecommendation(farmData)>> ELSE <<>>

ExclusiveRulesRecommendations(farmData) ==
  (IF FertilizerRule(farmData) # <<>> THEN FertilizerRule(farmData)
   ELSE PesticideRule(farmData))
  \o IrrigationRule(farmData)
  \o <<CropRotationRecommendation, ConservationRecommendation>>

UnlessPractisedRecommendations(farmData) ==
  FertilizerRule(farmData) \o PesticideRule(farmData) \o IrrigationRule(farmData)
  \o <<CropRotationRecommendation>>
  \o (IF Has(farmData, "conservationAgriculture") /\ farmData.conservationAgriculture
      THEN <<>> ELSE <<ConservationRecommendation>>)

\* the recommendations in the order the code pushes them
PushedRecommendations(farmData) ==
  FertilizerRule(farmData) \o PesticideRule(farmData) \o IrrigationRule(farmData)
  \o <<CropRotationRecommendation, ConservationRecommendation>>

getEcofriendlyRecommendations(farmData) ==
  StableSort(PushedRecommendations(farmData))

(***************************************************************************)
(* calculateCarbonCreditPotential                                          *)
(***************************************************************************)
CreditPotentialOfRoundedTons(carbonReductionKg) ==
  LET costPerTon == 400
      tons       == MathRound(carbonReductionKg, 1000)
  IN  [ reductionTons  |-> tons,
        potentialValue |-> tons * costPerTon,
        currency       |-> "INR" ]

calculateCarbonCreditPotential(carbonReductionKg) ==
  LET costPerTon == 400
  IN  [ reductionTons  |-> MathRound(carbonReductionKg, 1000),
        potentialValue |-> MathRound(carbonReductionKg * costPerTon, 1000),
        currency       |-> "INR" ]   \* the rupee sign

(***************************************************************************)
(* calculateSustainabilityScore                                            *)
(***************************************************************************)
\* farmData.<group>?.organic >= 50
OrganicAtLeastFifty(farmData, group) ==
  /\ Has(farmData, group)
  /\ Has(farmData[group], "organic")
  /\ farmData[group].organic >= 50 * Scale

\* farmData.<group>?.<field> === 0
FieldIsZero(farmData, group, field) ==
  /\ Has(farmData, group)
  /\ Has(farmData[group], field)
  /\ farmData[group][field] = 0

FertilizerPractices(farmData) ==
  (IF OrganicAtLeastFifty(farmData, "fertilizerUsage") THEN 10 ELSE 0)
  + (IF FieldIsZero(farmData, "fertilizerUsage", "synthetic") THEN 5 ELSE 0)

PesticidePractices(farmData) ==
  (IF OrganicAtLeastFifty(farmData, "pesticideUsage") THEN 10 ELSE 0)
  + (IF FieldIsZero(farmData, "pesticideUsage", "chemical") THEN 5 ELSE 0)

IrrigationEfficiency(farmData) ==
  IF Has(farmData, "irrigationType") /\ farmData.irrigationType = "drip" THEN 15 ELSE 0

CropDiversity(farmData) ==
  IF Has(farmData, "cropDiversity") /\ farmData.cropDiversity >= 3 THEN 10 ELSE 0

ExclusiveConservationPractices(farmData) ==
  IF Has(farmData, "conservationAgriculture") /\ farmData.conservationAgriculture THEN 10
  ELSE IF Has(farmData, "mulching") /\ farmData.mulching THEN 5 ELSE 0

ConservationPractices(farmData) ==
  (IF Has(farmData, "conservationAgriculture") /\ farmData.conservationAgriculture
   THEN 10 ELSE 0)
  + (IF Has(farmData, "mulching") /\ farmData.mulching THEN 5 ELSE 0)

\* let score = 50, then the score += lines
AccumulatedScore(farmData) ==
  50 + FertilizerPractices(farmData) + PesticidePractices(farmData)
     + IrrigationEfficiency(farmData) + CropDiversity(farmData)
     + ConservationPractices(farmData)

UnclampedSustainabilityScore(farmData) == AccumulatedScore(farmData)

calculateSustainabilityScore(farmData) ==
  Min(100, Max(0, AccumulatedScore(farmData)))

(***************************************************************************)
(* The state machine.  A state is one invocation of a static method of the *)
(* service: the method (op), its arguments (args), whether it has returned *)
(* (pc) and its return value (result).  Init is any invocation with inputs *)
(* from the bounded sets; there is one action per method, its body.        *)
(***************************************************************************)
NoResult == <<>>

\* no document in any collection, no response sent
EmptyStore ==
  /\ Farm = <<>>
  /\ Crop = <<>>
  /\ Marketplace = <<>>
  /\ res = NoResult

\* no AuthProvider is mounted
NoProvider ==
  /\ user = NoResult
  /\ token = NoResult
  /\ loading = FALSE
  /\ localStorage = NoResult
  /\ loadUser = NoResult
  /\ calls = <<>>
  /\ session = NoResult

Init ==
  /\ emissionFactors = EmissionFactorTable
  /\ pc = "call"
  /\ result = NoResult
  /\ caller = 1
  /\ log = <<>>
  /\ alone = <<>>
  /\ EmptyStore
  /\ NoProvider
  /\ \/ /\ op = "calculateBaselineFootprint"
        /\ args \in {<<fd>> : fd \in BaselineRecords}
     \/ /\ op = "calculateEcofriendlyFootprint"
        /\ args \in {<<fd>> : fd \in EcofriendlyRecords}
     \/ /\ op = "calculateCarbonReduction"
        /\ args \in FootprintValues \X FootprintValues
     \/ /\ op = "getEcofriendlyRecommendations"
        /\ args \in {<<fd>> : fd \in RecommendationRecords}
     \/ /\ op = "calculateCarbonCreditPotential"
        /\ args \in {<<kg>> : kg \in ReductionValues}
     \/ /\ op = "calculateSustainabilityScore"
        /\ args \in {<<fd>> : fd \in ScoreRecords}

\* an invocation that returned
Returning(value) == [caller |-> caller, op |-> op, args |-> args, result |-> value]

\* a method that keeps the factor it looked up: the irrigation factor, or its
\* default, is stored in the table under the irrigationType of the record
ReturnCachingFactor(method, value) ==
  /\ pc = "call"
  /\ op = method
  /\ result' = value
  /\ pc' = "return"
  /\ log' = Append(log, Returning(value))
  /\ emissionFactors' =
       IF method = "calculateBaselineFootprint" /\ Has(args[1], "irrigationType")
       THEN (args[1].irrigationType :> IrrigationEmissionFactor(args[1].irrigationType))
              @@ emissionFactors
       ELSE emissionFactors
  /\ UNCHANGED <<op, args, caller, alone, storeVars, authVars>>

\* a method that writes the default of an absent irrigationHours into the
\* record it was given
ReturnDefaultingRecord(method, value) ==
  /\ pc = "call"
  /\ op = method
  /\ result' = value
  /\ pc' = "return"
  /\ log' = Append(log, Returning(value))
  /\ args' =
       IF method = "calculateSustainabilityScore" /\ ~Has(args[1], "irrigationHours")
       THEN <<("irrigationHours" :> 0) @@ args[1]>>
       ELSE args
  /\ UNCHANGED <<emissionFactors, op, caller, alone, storeVars, authVars>>

\* a method that keeps its last result and returns it again to the next
\* invocation of the same method
ReturnMemoisedByMethod(method, value) ==
  LET stale  == log # <<>> /\ log[Len(log)].op = method
      answer == IF stale THEN log[Len(log)].result ELSE value
  IN  /\ pc = "call"
      /\ op = method
      /\ result' = answer
      /\ pc' = "return"
      /\ log' = Append(log, Returning(answer))
      /\ UNCHANGED <<emissionFactors, op, args, caller, alone, storeVars, authVars>>

\* the body of a method: it returns value and writes nothing else
Return(method, value) ==
  /\ pc = "call"
  /\ op = method
  /\ result' = value
  /\ pc' = "return"
  /\ log' = Append(log, Returning(value))
  /\ UNCHANGED <<emissionFactors, op, args, caller, alone, storeVars, authVars>>

BaselineFootprint ==
  Return("calculateBaselineFootprint", calculateBaselineFootprint(args[1]))

EcofriendlyFootprint ==
  Return("calculateEcofriendlyFootprint", calculateEcofriendlyFootprint(args[1]))

CarbonReduction ==
  Return("calculateCarbonReduction", calculateCarbonReduction(args[1], args[2]))

EcofriendlyRecommendations ==
  Return("getEcofriendlyRecommendations", getEcofriendlyRecommendations(args[1]))

CarbonCreditPotential ==
  Return("calculateCarbonCreditPotential", calculateCarbonCreditPotential(args[1]))

SustainabilityScore ==
  Return("calculateSustainabilityScore", calculateSustainabilityScore(args[1]))

Next ==
  \/ BaselineFootprint
  \/ EcofriendlyFootprint
  \/ CarbonReduction
  \/ EcofriendlyRecommendations
  \/ CarbonCreditPotential
  \/ SustainabilityScore

Spec == Init /\ [][Next]_vars

(***************************************************************************)
(* POST /api/carbon/calculate.  The handler is synchronous: it builds the  *)
(* record from four fields of the body, calls the engine five times and    *)
(* answers.  A metric is a product of two hundredths (1/10^4); a           *)
(* percentage (metric / footprint * 100) is the exact fraction num / den.  *)
(***************************************************************************)
\* the values of a body field: small ones, a negative one and a large one
BodyQuantities == SmallQty \cup {-100, 100}

\* req.body
RequestBodies ==
  {f @@ p @@ fu @@ e :
      f \in Opt("fertilizerUse", BodyQuantities),
      p \in Opt("pesticideUse", BodyQuantities),
      fu \in Opt("fuelUse", BodyQuantities),
      e \in Opt("energyUse", BodyQuantities)}

\* a handler that takes the irrigation as drip
DripEngineRecordOf(body) ==
  ("area" :> Scale)
    @@ ("fertilizerUsage" :> ("synthetic" :> OrZero(body, "fertilizerUse")))
    @@ ("pesticideUsage" :> ("chemical" :> OrZero(body, "pesticideUse")))
    @@ ("fuelUsage" :> ("diesel" :> OrZero(body, "fuelUse")))
    @@ ("energyUsage" :> ("electricity" :> OrZero(body, "energyUse")))
    @@ ("irrigationHours" :> 0)
    @@ ("irrigationType" :> "drip")

\* const value = { area: 1, ... }
EngineRecordOf(body) ==
  ("area" :> Scale)
    @@ ("fertilizerUsage" :> ("synthetic" :> OrZero(body, "fertilizerUse")))
    @@ ("pesticideUsage" :> ("chemical" :> OrZero(body, "pesticideUse")))
    @@ ("fuelUsage" :> ("diesel" :> OrZero(body, "fuelUse")))
    @@ ("energyUsage" :> ("electricity" :> OrZero(body, "energyUse")))
    @@ ("irrigationHours" :> 0)
    @@ ("irrigationType" :> "flood")

\* metrics: { fertilizer, pesticides, fuel, energy }
MetricsOf(body) ==
  [ fertilizer |-> OrZero(body, "fertilizerUse") * 450,
    pesticides |-> OrZero(body, "pesticideUse") * 250,
    fuel       |-> OrZero(body, "fuelUse") * 268,
    energy     |-> OrZero(body, "energyUse") * 95 ]

\* baselineFootprint > 0 ? (metric / baselineFootprint) * 100 : 0
PercentageOf(metric, baselineFootprint) ==
  IF baselineFootprint > 0 THEN [num |-> metric, den |-> baselineFootprint]
  ELSE [num |-> 0, den |-> 1]

\* recommendations.map(r => ({ title, description, impact, reduction }))
RecommendationView(r) ==
  [ title       |-> r.practice,
    description |-> r.implementation,
    impact      |-> IF r.priority = "high" THEN "High" ELSE "Medium",
    reduction   |-> r.impact ]

\* the five invocations of the engine, in the order the handler makes them
EngineCallsOf(value) ==
  LET baselineFootprint    == calculateBaselineFootprint(value)
      ecofriendlyFootprint == calculateEcofriendlyFootprint(value)
      made(method, arguments, returned) ==
        [caller |-> caller, op |-> method, args |-> arguments, result |-> returned]
  IN  << made("calculateBaselineFootprint", <<value>>, baselineFootprint),
         made("calculateEcofriendlyFootprint", <<value>>, ecofriendlyFootprint),
         made("calculateCarbonReduction", <<baselineFootprint, ecofriendlyFootprint>>,
              calculateCarbonReduction(baselineFootprint, ecofriendlyFootprint)),
         made("getEcofriendlyRecommendations", <<value>>,
              getEcofriendlyRecommendations(value)),
         made("calculateSustainabilityScore", <<value>>,
              calculateSustainabilityScore(value)) >>

\* res.json({ success: true, data: { ... } })
CalculateResponse(body) ==
  LET value               == EngineRecordOf(body)
      baselineFootprint   == calculateBaselineFootprint(value)
      recommendations     == getEcofriendlyRecommendations(value)
      sustainabilityScore == calculateSustainabilityScore(value)
      metrics             == MetricsOf(body)
  IN  [ status  |-> 200,
        success |-> TRUE,
        data    |->
          [ totalFootprint      |-> baselineFootprint,
            score               |-> sustainabilityScore,
            metrics             |-> metrics,
            percentageBreakdown |->
              [m \in DOMAIN metrics |-> PercentageOf(metrics[m], baselineFootprint)],
            recommendations     |->
              [i \in 1 .. Len(recommendations) |-> RecommendationView(recommendations[i])] ] ]

PostCalculate ==
  /\ pc = "call"
  /\ op = "POST /api/carbon/calculate"
  /\ result' = CalculateResponse(args[1])
  /\ log' = log \o EngineCallsOf(EngineRecordOf(args[1]))
  /\ pc' = "return"
  /\ UNCHANGED <<emissionFactors, op, args, caller, alone, storeVars, authVars>>

InitRoute ==
  /\ emissionFactors = EmissionFactorTable
  /\ pc = "call"
  /\ op = "POST /api/carbon/calculate"
  /\ args \in {<<body>> : body \in RequestBodies}
  /\ result = NoResult
  /\ caller = 1
  /\ log = <<>>
  /\ alone = <<>>
  /\ EmptyStore
  /\ NoProvider

NextRoute == PostCalculate

SpecRoute == InitRoute /\ [][NextRoute]_vars

(***************************************************************************)
(* A session.  The methods are static and synchronous (no await, no        *)
(* callback), so an invocation runs to its return before the next one      *)
(* starts; callers interleave invocation by invocation.                    *)
(***************************************************************************)
Call(method, arguments) == [op |-> method, args |-> arguments]

FloodRecord == ("area" :> 100) @@ ("irrigationHours" :> 1000) @@ ("irrigationType" :> "flood")

SprinklerRecord ==
  ("area" :> 250) @@ ("fertilizerUsage" :> ("synthetic" :> 10000))
    @@ ("irrigationHours" :> 33) @@ ("irrigationType" :> "sprinkler")

DripRecord ==
  ("area" :> 100) @@ ("pesticideUsage" :> ("organic" :> 300))
    @@ ("irrigationHours" :> 1000) @@ ("irrigationType" :> "drip")

MulchingRecord ==
  ("area" :> 100) @@ ("fertilizerUsage" :> ("organic" :> 5000)) @@ ("mulching" :> TRUE)

\* the invocations a caller chooses from
SessionCalls ==
  << Call("calculateBaselineFootprint", <<FloodRecord>>),
     Call("getEcofriendlyRecommendations", <<FloodRecord>>),
     Call("calculateBaselineFootprint", <<SprinklerRecord>>),
     Call("getEcofriendlyRecommendations", <<SprinklerRecord>>),
     Call("calculateEcofriendlyFootprint", <<DripRecord>>),
     Call("calculateCarbonReduction", <<8, 1>>),
     Call("calculateCarbonCreditPotential", <<125>>),
     Call("calculateSustainabilityScore", <<MulchingRecord>>),
     Call("calculateSustainabilityScore", <<DripRecord>>) >>

\* what a method returns for its arguments
ResultOf(method, arguments) ==
  CASE method = "calculateBaselineFootprint" ->
         calculateBaselineFootprint(arguments[1])
    [] method = "calculateEcofriendlyFootprint" ->
         calculateEcofriendlyFootprint(arguments[1])
    [] method = "calculateCarbonReduction" ->
         calculateCarbonReduction(arguments[1], arguments[2])
    [] method = "getEcofriendlyRecommendations" ->
         getEcofriendlyRecommendations(arguments[1])
    [] method = "calculateCarbonCreditPotential" ->
         calculateCarbonCreditPotential(arguments[1])
    [] method = "calculateSustainabilityScore" ->
         calculateSustainabilityScore(arguments[1])

InitSession ==
  /\ emissionFactors = EmissionFactorTable
  /\ pc = "idle"
  /\ op = "none"
  /\ args = <<>>
  /\ result = NoResult
  /\ caller = 1
  /\ log = <<>>
  /\ alone = [k \in 1 .. Len(SessionCalls) |->
                ResultOf(SessionCalls[k].op, SessionCalls[k].args)]
  /\ EmptyStore
  /\ NoProvider

\* a caller invokes a method once the running invocation has returned
Invoke ==
  /\ pc # "call"
  /\ Len(log) < MaxCalls
  /\ \E c \in 1 .. NumCallers, k \in 1 .. Len(SessionCalls) :
       /\ caller' = c
       /\ op' = SessionCalls[k].op
       /\ args' = SessionCalls[k].args
  /\ pc' = "call"
  /\ UNCHANGED <<emissionFactors, result, log, alone, storeVars, authVars>>

NextSession ==
  \/ Invoke
  \/ Next

SpecSession == InitSession /\ [][NextSession]_vars

\* the record the invocation was made on
farmData == args[1]

Returned(method) == pc = "return" /\ op = method

(***************************************************************************)
(* Vocabulary of the properties.                                           *)
(***************************************************************************)
Abs(n) == IF n < 0 THEN -n ELSE n

\* r is n / d rounded to a nearest integer (d > 0), a tie going either way
Nearest(r, n, d) == 2 * Abs(r * d - n) <= d

\* the quantity a record states for a field of a usage group; none stated is 0
Quantity(fd, group, field) ==
  IF Has(fd, group) /\ Has(fd[group], field) THEN fd[group][field] ELSE 0

Hours(fd) == OrZero(fd, "irrigationHours")

IrrigationTypeOf(fd) == IF Has(fd, "irrigationType") THEN fd.irrigationType ELSE "absent"

Flag(fd, key) == Has(fd, key) /\ fd[key]

\* synthetic * 4.5 + chemical * 2.5 + diesel * 2.68, in 1/10^4
ConventionalSum(fd) ==
  Quantity(fd, "fertilizerUsage", "synthetic") * 450
  + Quantity(fd, "pesticideUsage", "chemical") * 250
  + Quantity(fd, "fuelUsage", "diesel") * 268

\* organic fertilizer * 0.8 + organic pesticide * 0.4, in 1/10^4
OrganicSum(fd) ==
  Quantity(fd, "fertilizerUsage", "organic") * 80
  + Quantity(fd, "pesticideUsage", "organic") * 40

\* every usage quantity and irrigationHours is zero
AllZero(fd) ==
  /\ \A field \in {"synthetic", "organic"} : Quantity(fd, "fertilizerUsage", field) = 0
  /\ \A field \in {"chemical", "organic"} : Quantity(fd, "pesticideUsage", field) = 0
  /\ \A field \in {"diesel", "petrol", "electricity"} : Quantity(fd, "fuelUsage", field) = 0
  /\ Hours(fd) = 0

Practices(recommendations) ==
  {recommendations[i].practice : i \in 1 .. Len(recommendations)}

RECURSIVE SumOver(_, _)
SumOver(f, keys) ==
  IF keys = {} THEN 0
  ELSE LET k == CHOOSE x \in keys : TRUE IN f[k] + SumOver(f, keys \ {k})

(***************************************************************************)
(* calculateSustainabilityScore: C1, C2                                    *)
(***************************************************************************)
\* C1: for every record with non-negative fields the sustainability score is
\* an integer between 0 and 100.
C1_ScoreWithinBounds ==
  Returned("calculateSustainabilityScore") => result \in 0 .. 100

\* C1, witness: every bonus fires (the sum is 120) and the score returned is 100.
C1_ScoreClampedAtHundred ==
  /\ Returned("calculateSustainabilityScore")
  /\ Quantity(farmData, "fertilizerUsage", "organic") >= 5000
  /\ FieldIsZero(farmData, "fertilizerUsage", "synthetic")
  /\ Quantity(farmData, "pesticideUsage", "organic") >= 5000
  /\ FieldIsZero(farmData, "pesticideUsage", "chemical")
  /\ IrrigationTypeOf(farmData) = "drip"
  /\ OrZero(farmData, "cropDiversity") >= 3
  /\ Flag(farmData, "conservationAgriculture")
  /\ Flag(farmData, "mulching")
  /\ result = 100

\* the bonus table of the claim
BonusTable ==
  [ organicFertilizer |-> 10, noSynthetic |-> 5, organicPesticide |-> 10, noChemical |-> 5,
    drip |-> 15, diversity |-> 10, conservation |-> 10, mulching |-> 5 ]

\* the organic share of a usage group, in percent, is at least 50
OrganicShareAtLeastHalf(fd, group, other) ==
  LET organic == Quantity(fd, group, "organic")
      total   == organic + Quantity(fd, group, other)
  IN  total > 0 /\ 100 * organic >= 50 * total

\* the bonuses that hold, the organic ones by the share of the organic input
BonusesByShare(fd) ==
  {b \in DOMAIN BonusTable :
     \/ b = "organicFertilizer" /\ OrganicShareAtLeastHalf(fd, "fertilizerUsage", "synthetic")
     \/ b = "noSynthetic" /\ FieldIsZero(fd, "fertilizerUsage", "synthetic")
     \/ b = "organicPesticide" /\ OrganicShareAtLeastHalf(fd, "pesticideUsage", "chemical")
     \/ b = "noChemical" /\ FieldIsZero(fd, "pesticideUsage", "chemical")
     \/ b = "drip" /\ IrrigationTypeOf(fd) = "drip"
     \/ b = "diversity" /\ OrZero(fd, "cropDiversity") >= 3
     \/ b = "conservation" /\ Flag(fd, "conservationAgriculture")
     \/ b = "mulching" /\ Flag(fd, "mulching")}

\* the bonuses that hold, the organic ones by the organic quantity: 50 units or more
BonusesByQuantity(fd) ==
  {b \in DOMAIN BonusTable :
     \/ b = "organicFertilizer" /\ Quantity(fd, "fertilizerUsage", "organic") >= 5000
     \/ b = "noSynthetic" /\ FieldIsZero(fd, "fertilizerUsage", "synthetic")
     \/ b = "organicPesticide" /\ Quantity(fd, "pesticideUsage", "organic") >= 5000
     \/ b = "noChemical" /\ FieldIsZero(fd, "pesticideUsage", "chemical")
     \/ b = "drip" /\ IrrigationTypeOf(fd) = "drip"
     \/ b = "diversity" /\ OrZero(fd, "cropDiversity") >= 3
     \/ b = "conservation" /\ Flag(fd, "conservationAgriculture")
     \/ b = "mulching" /\ Flag(fd, "mulching")}

\* C2 as stated: the score is min(100, max(0, 50 + the sum of the bonuses that
\* hold)), the organic fertilizer and organic pesticide bonuses holding when the
\* organic share is at least 50.
C2_BonusesByOrganicShare ==
  Returned("calculateSustainabilityScore") =>
    result = Min(100, Max(0, 50 + SumOver(BonusTable, BonusesByShare(farmData))))

\* C2 as amended: the score is min(100, max(0, 50 + the sum of the bonuses that
\* hold)), each bonus added independently of the others, the organic bonuses
\* holding when the organic quantity is at least 50 and the zero bonuses when
\* the synthetic or chemical quantity is stated and equal to 0.
C2_BonusesByOrganicQuantity ==
  Returned("calculateSustainabilityScore") =>
    result = Min(100, Max(0, 50 + SumOver(BonusTable, BonusesByQuantity(farmData))))

\* C2, witness: conservation agriculture and mulching both hold, no other bonus
\* does, and the score is 50 + 10 + 5.
C2_TwoBonusesAdded ==
  /\ Returned("calculateSustainabilityScore")
  /\ BonusesByQuantity(farmData) = {"conservation", "mulching"}
  /\ result = 65

(***************************************************************************)
(* calculateCarbonReduction: C3                                            *)
(***************************************************************************)
\* C3: calculateCarbonReduction(baseline, eco) is 0 when baseline is 0 and is
\* otherwise ((baseline - eco) / baseline) * 100 rounded to a nearest integer;
\* so it is 0 when baseline = eco and 100 for baseline 100 and eco 0.
C3_ReductionPercent ==
  Returned("calculateCarbonReduction") =>
    LET baseline == args[1]
        eco      == args[2]
    IN  /\ baseline = 0 => result = 0
        /\ baseline # 0 => Nearest(result, (baseline - eco) * 100, baseline)
        /\ baseline = eco => result = 0
        /\ (baseline = 10000 /\ eco = 0) => result = 100

\* C3, witness: a zero baseline with a positive eco-friendly footprint returns 0.
C3_ZeroBaselineReturnsZero ==
  /\ Returned("calculateCarbonReduction")
  /\ args[1] = 0
  /\ args[2] > 0
  /\ result = 0

(***************************************************************************)
(* calculateBaselineFootprint: C4, C5, C6                                  *)
(***************************************************************************)
\* C4: with irrigationHours 0 the baseline footprint is synthetic * 4.5 +
\* chemical * 2.5 + diesel * 2.68 rounded to 2 decimals, whatever the organic,
\* petrol and electricity quantities are; 100 kg of synthetic fertilizer alone
\* give exactly 450.00.
C4_BaselineWithoutIrrigation ==
  (Returned("calculateBaselineFootprint") /\ Hours(farmData) = 0) =>
    /\ Nearest(result, ConventionalSum(farmData), 100)
    /\ (/\ Quantity(farmData, "fertilizerUsage", "synthetic") = 10000
        /\ Quantity(farmData, "pesticideUsage", "chemical") = 0
        /\ Quantity(farmData, "fuelUsage", "diesel") = 0) => result = 45000

\* C4, witness: 100 kg synthetic next to organic fertilizer, organic pesticide
\* and petrol, irrigationHours 0, and the baseline returned is 450.00.
C4_FourHundredFifty ==
  /\ Returned("calculateBaselineFootprint")
  /\ Has(farmData, "irrigationHours") /\ farmData.irrigationHours = 0
  /\ Quantity(farmData, "fertilizerUsage", "synthetic") = 10000
  /\ Quantity(farmData, "fertilizerUsage", "organic") > 0
  /\ Quantity(farmData, "pesticideUsage", "organic") > 0
  /\ Quantity(farmData, "fuelUsage", "petrol") > 0
  /\ result = 45000

\* the irrigation rows of the emission-factor table, as the claims name them
IrrigationFactorByMethod == [flood |-> 50, drip |-> 15, sprinkler |-> 25]

\* C5: with irrigationHours > 0 and irrigationType flood, drip or sprinkler the
\* baseline footprint contains the term irrigationHours * area * factor of
\* that method (flood 0.5, drip 0.15, sprinkler 0.25).
C5_IrrigationTermByMethod ==
  (/\ Returned("calculateBaselineFootprint")
   /\ Hours(farmData) > 0
   /\ IrrigationTypeOf(farmData) \in DOMAIN IrrigationFactorByMethod) =>
    Nearest(result,
            ConventionalSum(farmData) * 100
              + Hours(farmData) * farmData.area
                  * IrrigationFactorByMethod[IrrigationTypeOf(farmData)],
            10000)

\* C6: with irrigationHours > 0 and irrigationType absent or not flood, drip or
\* sprinkler the baseline footprint contains the term irrigationHours * area *
\* 0.5, whatever the irrigationType is.
C6_DefaultIrrigationFactor ==
  (/\ Returned("calculateBaselineFootprint")
   /\ Hours(farmData) > 0
   /\ IrrigationTypeOf(farmData) \notin DOMAIN IrrigationFactorByMethod) =>
    Nearest(result,
            ConventionalSum(farmData) * 100 + Hours(farmData) * farmData.area * 50,
            10000)

(***************************************************************************)
(* calculateEcofriendlyFootprint: C7                                       *)
(***************************************************************************)
\* C7: the eco-friendly footprint is organic fertilizer * 0.8 + organic
\* pesticide * 0.4, plus irrigationHours * area * 0.15 when irrigationType is
\* drip, rounded to 2 decimals; synthetic fertilizer, chemical pesticide, fuel
\* and transportMethod do not enter it.
C7_EcofriendlyFootprint ==
  Returned("calculateEcofriendlyFootprint") =>
    Nearest(result,
            OrganicSum(farmData) * 100
              + (IF IrrigationTypeOf(farmData) = "drip"
                 THEN Hours(farmData) * farmData.area * 15 ELSE 0),
            10000)

\* C7, witness: flood irrigation for 10 hours, manual transport, synthetic
\* fertilizer, chemical pesticide and diesel stated, and the footprint returned
\* is that of the organic inputs alone.
C7_OrganicChannelsOnly ==
  /\ Returned("calculateEcofriendlyFootprint")
  /\ IrrigationTypeOf(farmData) = "flood" /\ Hours(farmData) = 1000
  /\ Has(farmData, "transportMethod") /\ farmData.transportMethod = "manual"
  /\ Quantity(farmData, "fertilizerUsage", "synthetic") > 0
  /\ Quantity(farmData, "pesticideUsage", "chemical") > 0
  /\ Quantity(farmData, "fuelUsage", "diesel") > 0
  /\ Quantity(farmData, "fertilizerUsage", "organic") = 5000
  /\ result = 4000

(***************************************************************************)
(* getEcofriendlyRecommendations: C8, C9, C10                              *)
(***************************************************************************)
AlwaysFired == {"Practice crop rotation", "Adopt conservation agriculture"}

\* C8: for a record whose usage quantities and irrigationHours are all zero
\* the baseline footprint is 0, the eco-friendly footprint is 0, the reduction
\* of these two footprints is 0, and the recommendations contain the crop
\* rotation and the conservation agriculture items.
C8_AllZeroRecord ==
  /\ (Returned("calculateBaselineFootprint") /\ AllZero(farmData)) => result = 0
  /\ (Returned("calculateEcofriendlyFootprint") /\ AllZero(farmData)) => result = 0
  /\ (Returned("calculateCarbonReduction") /\ args = <<0, 0>>) => result = 0
  /\ (Returned("getEcofriendlyRecommendations") /\ AllZero(farmData)) =>
       AlwaysFired \subseteq Practices(result)

\* C8, witness: an all-zero record that already practises conservation
\* agriculture gets exactly the two always-fired recommendations.
C8_AllZeroStillRecommends ==
  /\ Returned("getEcofriendlyRecommendations")
  /\ AllZero(farmData)
  /\ Has(farmData, "fertilizerUsage") /\ Has(farmData, "pesticideUsage")
  /\ Has(farmData, "irrigationHours")
  /\ Flag(farmData, "conservationAgriculture")
  /\ Practices(result) = AlwaysFired

\* the rank of a priority and the place of a rule in the code
PriorityRank == [high |-> 1, medium |-> 2, low |-> 3]

DeclarationOrder ==
  [p \in { "Switch to organic fertilizer", "Use organic pest control",
           "Install drip irrigation", "Practice crop rotation",
           "Adopt conservation agriculture" } |->
     CASE p = "Switch to organic fertilizer" -> 1
       [] p = "Use organic pest control" -> 2
       [] p = "Install drip irrigation" -> 3
       [] p = "Practice crop rotation" -> 4
       [] p = "Adopt conservation agriculture" -> 5]

\* C9: the recommendations are ordered by priority rank (high, medium, low),
\* so no medium item precedes a high item, and items of equal priority are in
\* rule-declaration order.
C9_OrderedByPriority ==
  Returned("getEcofriendlyRecommendations") =>
    \A i, j \in 1 .. Len(result) :
      i < j =>
        /\ PriorityRank[result[i].priority] <= PriorityRank[result[j].priority]
        /\ result[i].priority = result[j].priority =>
             DeclarationOrder[result[i].practice] < DeclarationOrder[result[j].practice]

\* C9, witness: all five rules fired; three high items are followed by two
\* medium items.
C9_FiveRecommendations ==
  /\ Returned("getEcofriendlyRecommendations")
  /\ Len(result) = 5
  /\ result[3].priority = "high"
  /\ result[4].priority = "medium"

\* the savings of the recommendation with the given practice
SavingsIn(recommendations, practice) ==
  LET i == CHOOSE k \in 1 .. Len(recommendations) : recommendations[k].practice = practice
  IN  recommendations[i].savings

\* a savings field (in hundredths) is quantity * difference (in 1/10^4),
\* exactly or rounded to 2 decimals
SavingsAre(savings, product, rounded) ==
  IF rounded THEN Nearest(savings, product, 100) ELSE savings * 100 = product

\* the fertilizer and the pesticide rule fire exactly on a positive quantity,
\* with the savings of the claim
FertilizerAndPesticideRules(rounded) ==
  LET synthetic == Quantity(farmData, "fertilizerUsage", "synthetic")
      chemical  == Quantity(farmData, "pesticideUsage", "chemical")
  IN  /\ "Switch to organic fertilizer" \in Practices(result) <=> synthetic > 0
      /\ synthetic > 0 =>
           LET savings == SavingsIn(result, "Switch to organic fertilizer")
           IN  savings.kind = "number" /\ SavingsAre(savings.val, synthetic * (450 - 80), rounded)
      /\ "Use organic pest control" \in Practices(result) <=> chemical > 0
      /\ chemical > 0 =>
           LET savings == SavingsIn(result, "Use organic pest control")
           IN  savings.kind = "number" /\ SavingsAre(savings.val, chemical * (250 - 40), rounded)

\* C10 as stated: the organic-fertilizer recommendation is there iff synthetic
\* > 0, with savings = synthetic * (4.5 - 0.8), and the organic-pest-control
\* recommendation iff chemical > 0, with savings = chemical * (2.5 - 0.4).
C10_UnroundedSavings ==
  Returned("getEcofriendlyRecommendations") => FertilizerAndPesticideRules(FALSE)

\* C10 as amended: as stated, with each savings value rounded to 2 decimals.
C10_SavingsRoundedToCents ==
  Returned("getEcofriendlyRecommendations") => FertilizerAndPesticideRules(TRUE)

\* C10, witness: 0.01 kg of synthetic fertilizer and no chemical pesticide:
\* the fertilizer rule fires alone and its savings are 0.04, not 0.037.
C10_FertilizerRuleAlone ==
  /\ Returned("getEcofriendlyRecommendations")
  /\ Quantity(farmData, "fertilizerUsage", "synthetic") = 1
  /\ Has(farmData, "pesticideUsage") /\ Quantity(farmData, "pesticideUsage", "chemical") = 0
  /\ "Use organic pest control" \notin Practices(result)
  /\ SavingsIn(result, "Switch to organic fertilizer") = Num(4)

(***************************************************************************)
(* getEcofriendlyRecommendations: C11, C12                                 *)
(***************************************************************************)
\* C11: the drip-irrigation recommendation is there iff irrigationType is
\* flood or sprinkler, and its savings field is the number irrigationHours *
\* area * (factor of the type - 0.15), flood 0.5 and sprinkler 0.25, rounded
\* to 2 decimals.
C11_IrrigationRuleSavings ==
  Returned("getEcofriendlyRecommendations") =>
    LET fired == "Install drip irrigation" \in Practices(result)
    IN  /\ fired <=> IrrigationTypeOf(farmData) \in {"flood", "sprinkler"}
        /\ fired =>
             LET savings == SavingsIn(result, "Install drip irrigation")
             IN  /\ savings.kind = "number"
                 /\ Nearest(savings.val,
                            Hours(farmData) * farmData.area
                              * (IrrigationFactorByMethod[farmData.irrigationType] - 15),
                            10000)

\* the positions of a practice in a list of recommendations
PositionsOf(recommendations, practice) ==
  {i \in 1 .. Len(recommendations) : recommendations[i].practice = practice}

\* C12: the crop-rotation and the conservation-agriculture recommendation are
\* returned exactly once each, with priority medium and without a savings
\* field, and the list has between 2 and 5 items.
C12_AlwaysFiredRecommendations ==
  Returned("getEcofriendlyRecommendations") =>
    /\ \A practice \in AlwaysFired :
         /\ Cardinality(PositionsOf(result, practice)) = 1
         /\ \A i \in PositionsOf(result, practice) :
              /\ result[i].priority = "medium"
              /\ ~Has(result[i], "savings")
    /\ Len(result) \in 2 .. 5

\* C12, witness: drip irrigation for 10 hours and no synthetic or chemical
\* input: the list is the two always-fired items.
C12_OnlyTheTwoItems ==
  /\ Returned("getEcofriendlyRecommendations")
  /\ IrrigationTypeOf(farmData) = "drip" /\ Hours(farmData) = 1000
  /\ Len(result) = 2
  /\ result[1].practice = "Practice crop rotation"
  /\ result[2].practice = "Adopt conservation agriculture"

(***************************************************************************)
(* calculateCarbonCreditPotential: C13                                     *)
(***************************************************************************)
\* reductionTons is reductionKg / 1000 and the value is reductionKg / 1000 *
\* 400, each rounded to 2 decimals; 1000 kg give 1.00 and 400.00
CreditValues(tons, value) ==
  /\ Nearest(tons, args[1], 1000)
  /\ Nearest(value, args[1] * 400, 1000)
  /\ args[1] = 100000 => (tons = 100 /\ value = 40000)

C16_EveryOutputIsANumber ==
  /\ Returned("getEcofriendlyRecommendations") =>
       \A i \in 1 .. Len(result) :
         Has(result[i], "savings") => result[i].savings.kind = "number"
  /\ Returned("calculateBaselineFootprint") => result \in Int
  /\ Returned("calculateEcofriendlyFootprint") => result \in Int
  /\ Returned("calculateCarbonReduction") => result \in Int
  /\ Returned("calculateSustainabilityScore") => result \in Int
  /\ Returned("calculateCarbonCreditPotential") =>
       \A field \in DOMAIN result \ {"currency"} : result[field] \in Int

\* C17: the baseline and the eco-friendly footprint are never negative, and
\* the reduction percent is an integer that is at most 100 (it may be
\* negative).
C17_FootprintAndReductionRanges ==
  /\ Returned("calculateBaselineFootprint") => result >= 0
  /\ Returned("calculateEcofriendlyFootprint") => result >= 0
  /\ Returned("calculateCarbonReduction") => result \in Int /\ result <= 100

\* C17, witness: an eco-friendly footprint of 0.08 over a baseline of 0.01 is
\* a reduction of -700 percent.
C17_NegativeReduction ==
  /\ Returned("calculateCarbonReduction")
  /\ args = <<1, 8>>
  /\ result = -700

(***************************************************************************)
(* Purity: C14, C15, C19                                                   *)
(***************************************************************************)
\* C14: two invocations with identical input return identical output,
\* whatever invocations were made in between.
C14_IdenticalInputIdenticalOutput ==
  \A i, j \in 1 .. Len(log) :
    (log[i].op = log[j].op /\ log[i].args = log[j].args)
      => log[i].result = log[j].result

\* C14, witness: the recommendations for the flood record, asked for before
\* and after a baseline computation on the same record by another caller.
C14_SameCallAroundAnother ==
  /\ Len(log) = 3
  /\ log[1].op = "getEcofriendlyRecommendations" /\ log[1].args = <<FloodRecord>>
  /\ log[2].op = "calculateBaselineFootprint" /\ log[2].args = <<FloodRecord>>
  /\ log[2].caller # log[1].caller
  /\ log[3].op = log[1].op /\ log[3].args = log[1].args
  /\ log[3].result = log[1].result

\* C15: no operation changes emissionFactors, nor the record it was given.
C15_NothingWritten ==
  [][/\ emissionFactors' = emissionFactors
     /\ pc = "call" => args' = args]_vars

\* C15, witness: the score of a record without irrigationHours was computed
\* after a baseline footprint; the table is as loaded and the record is as
\* it was passed.
C15_TableAndRecordAsBefore ==
  /\ Len(log) = 2
  /\ log[1].op = "calculateBaselineFootprint"
  /\ Returned("calculateSustainabilityScore")
  /\ args = <<MulchingRecord>> /\ log[2].args = args
  /\ emissionFactors = EmissionFactorTable

\* C19: whatever the callers and the interleaving of their invocations, each
\* invocation returns what it returns when it is the only one made.
C19_AsWhenInvokedAlone ==
  \A i \in 1 .. Len(log), k \in 1 .. Len(SessionCalls) :
    (SessionCalls[k].op = log[i].op /\ SessionCalls[k].args = log[i].args)
      => log[i].result = alone[k]

\* C19, witness: two callers take turns; the second one's recommendations for
\* the flood record come between two baseline computations of the first.
C19_CallersTakeTurns ==
  /\ Len(log) = 3
  /\ log[1].caller = 1 /\ log[2].caller = 2 /\ log[3].caller = 1
  /\ log[1].op = "calculateBaselineFootprint" /\ log[1].args = <<FloodRecord>>
  /\ log[2].op = "getEcofriendlyRecommendations" /\ log[2].args = <<FloodRecord>>
  /\ log[3].op = "calculateBaselineFootprint" /\ log[3].args = <<SprinklerRecord>>
  /\ log[2].result = alone[2]
  /\ log[3].result = alone[3]

(***************************************************************************)
(* POST /api/carbon/calculate: C18                                         *)
(***************************************************************************)
NegativeQuantity(body) == \E field \in DOMAIN body : body[field] < 0

\* the quantities of a record handed to the engine
QuantitiesOf(fd) ==
  UNION {{fd[group][field] : field \in DOMAIN fd[group]} :
           group \in {"fertilizerUsage", "pesticideUsage", "fuelUsage", "energyUsage"}
                       \cap DOMAIN fd}

\* the methods of the engine that take the usage record
RecordMethods ==
  {"calculateBaselineFootprint", "calculateEcofriendlyFootprint",
   "getEcofriendlyRecommendations", "calculateSustainabilityScore"}

\* C18: the handler validates the request before it invokes the engine: a body
\* with a negative quantity is rejected and reaches none of the methods that
\* take the record, nor does a record with a non-positive area, and the
\* response carries no negative footprint.
C18_ValidatedBeforeTheEngine ==
  Returned("POST /api/carbon/calculate") =>
    /\ NegativeQuantity(args[1]) => (result.status # 200 /\ log = <<>>)
    /\ \A i \in 1 .. Len(log) :
         log[i].op \in RecordMethods =>
           /\ log[i].args[1].area > 0
           /\ \A q \in QuantitiesOf(log[i].args[1]) : q >= 0
    /\ result.status = 200 => result.data.totalFootprint >= 0

(***************************************************************************)
(* The farm, crop and marketplace routes.  A collection is the sequence of *)
(* the documents ever created in it, a document's _id is its position, and *)
(* a deleted document leaves Deleted behind, so an _id is never given out  *)
(* twice.  Every route is behind protect: req.user is the user u of the    *)
(* request.  A handler is one step; res.docs names the documents whose     *)
(* data the response carries, populated documents included.                *)
(***************************************************************************)
Users == 1 .. NumUsers
FarmIds == 1 .. MaxFarms
CropIds == 1 .. MaxCrops
ListingIds == 1 .. MaxListings
Areas == 1 .. MaxArea

Deleted == [deleted |-> TRUE]

\* the document with this _id is in the collection
Live(collection, id) ==
  id \in 1 .. Len(collection) /\ ~Has(collection[id], "deleted")

\* findOne({ _id: id, [field]: u }) finds a document
Found(collection, id, field, u) ==
  Live(collection, id) /\ collection[id][field] = u

\* a document in a response
Doc(model, id) == <<model, id>>

\* Crop.find({ farm })
CropsOf(farm) == {c \in 1 .. Len(Crop) : Live(Crop, c) /\ Crop[c].farm = farm}

\* crops.reduce((sum, crop) => sum + crop.area, 0)
RECURSIVE UsedArea(_)
UsedArea(cropIds) ==
  IF cropIds = {} THEN 0
  ELSE LET c == CHOOSE x \in cropIds : TRUE
       IN  Crop[c].area + UsedArea(cropIds \ {c})

\* .populate('crops') on a farm: the crops of its array that exist
PopulatedCrops(farm) ==
  {Doc("Crop", Farm[farm].crops[i]) : i \in {k \in 1 .. Len(Farm[farm].crops) :
                                             Live(Crop, Farm[farm].crops[k])}}

\* .populate('farm', ...) on a crop document: its farm if that exists
PopulatedFarm(crop) ==
  IF Live(Farm, crop.farm) THEN {Doc("Farm", crop.farm)} ELSE {}

\* res.status(status).json(...), the response to request number n + 1; extra
\* is what the response carries besides documents
RespondWith(u, status, docs, extra) ==
  /\ res # NoResult => res.n < MaxRequests
  /\ res' = extra @@ [ n      |-> IF res = NoResult THEN 1 ELSE res.n + 1,
                       user   |-> u,
                       status |-> status,
                       docs   |-> docs ]

Respond(u, status, docs) == RespondWith(u, status, docs, EmptyObj)

\* request bodies: an area of 0 stands for one the schema rejects
FarmBodies == [area : {0} \cup Areas]

\* GET /api/farms
GetFarms ==
  \E u \in Users :
    LET farms == {f \in 1 .. Len(Farm) : Found(Farm, f, "owner", u)}
    IN  /\ Respond(u, 200, {Doc("Farm", f) : f \in farms}
                             \cup UNION {PopulatedCrops(f) : f \in farms})
        /\ UNCHANGED <<Farm, Crop, Marketplace, engineVars, authVars>>

\* GET /api/farms/:id
GetFarm ==
  \E u \in Users, id \in FarmIds :
    /\ IF Found(Farm, id, "owner", u)
       THEN Respond(u, 200, {Doc("Farm", id)} \cup PopulatedCrops(id))
       ELSE Respond(u, 404, {})
    /\ UNCHANGED <<Farm, Crop, Marketplace, engineVars, authVars>>

\* POST /api/farms
CreateFarm ==
  \E u \in Users, body \in FarmBodies :
    /\ IF body.area = 0
       THEN Respond(u, 400, {}) /\ UNCHANGED Farm
       ELSE /\ Len(Farm) < MaxFarms
            /\ Farm' = Append(Farm, [owner |-> u, area |-> body.area, crops |-> <<>>])
            /\ Respond(u, 201, {Doc("Farm", Len(Farm) + 1)})
    /\ UNCHANGED <<Crop, Marketplace, engineVars, authVars>>

\* PUT /api/farms/:id
UpdateFarm ==
  \E u \in Users, id \in FarmIds, body \in FarmBodies :
    /\ IF body.area = 0
       THEN Respond(u, 400, {}) /\ UNCHANGED Farm
       ELSE IF Found(Farm, id, "owner", u)
       THEN /\ Farm' = [Farm EXCEPT ![id].area = body.area]
            /\ Respond(u, 200, {Doc("Farm", id)})
       ELSE Respond(u, 404, {}) /\ UNCHANGED Farm
    /\ UNCHANGED <<Crop, Marketplace, engineVars, authVars>>

\* the statuses DELETE /api/farms/:id counts as active
ActiveStatuses == {"planned", "sown", "growing", "ready_to_harvest"}

\* DELETE /api/farms/:id
DeleteFarm ==
  \E u \in Users, id \in FarmIds :
    LET activeCrops == Cardinality({c \in CropsOf(id) : Crop[c].status \in ActiveStatuses})
    IN  /\ IF activeCrops > 0
           THEN Respond(u, 400, {}) /\ UNCHANGED Farm
           ELSE IF Found(Farm, id, "owner", u)
           THEN Farm' = [Farm EXCEPT ![id] = Deleted] /\ Respond(u, 200, {})
           ELSE Respond(u, 404, {}) /\ UNCHANGED Farm
        /\ UNCHANGED <<Crop, Marketplace, engineVars, authVars>>

\* const stats = { totalArea, usedArea, availableArea, totalCrops, ... }
StatsOf(farm) ==
  LET crops == CropsOf(farm)
  IN  [ totalArea      |-> Farm[farm].area,
        usedArea       |-> UsedArea(crops),
        availableArea  |-> Farm[farm].area - UsedArea(crops),
        totalCrops     |-> Cardinality(crops),
        activeCrops    |-> Cardinality({c \in crops : Crop[c].status \in
                             {"sown", "growing", "ready_to_harvest"}}),
        harvestedCrops |-> Cardinality({c \in crops : Crop[c].status = "harvested"}) ]

\* GET /api/farms/:id/stats
FarmStats ==
  \E u \in Users, id \in FarmIds :
    /\ IF Found(Farm, id, "owner", u)
       THEN RespondWith(u, 200, {Doc("Farm", id)}, "stats" :> StatsOf(id))
       ELSE Respond(u, 404, {})
    /\ UNCHANGED <<Farm, Crop, Marketplace, engineVars, authVars>>

CropStatuses == {"growing", "harvested"}

\* the bodies of POST /api/crops that name a farm; an area of 0 stands for
\* one the schema rejects
CropBodies == [farm : FarmIds, area : {0} \cup Areas, status : CropStatuses]

\* the bodies of PUT /api/crops/:id, which no schema is applied to
CropUpdates ==
  Opt("farm", FarmIds) \cup Opt("farmer", Users) \cup Opt("area", Areas)
    \cup Opt("status", CropStatuses)

\* GET /api/crops and GET /api/crops?farmId=...; farmId 0 is no farmId
GetCrops ==
  \E u \in Users, farmId \in {0} \cup FarmIds :
    LET crops == {c \in 1 .. Len(Crop) :
                    /\ Found(Crop, c, "farmer", u)
                    /\ farmId # 0 => Crop[c].farm = farmId}
    IN  /\ Respond(u, 200, {Doc("Crop", c) : c \in crops}
                             \cup UNION {PopulatedFarm(Crop[c]) : c \in crops})
        /\ UNCHANGED <<Farm, Crop, Marketplace, engineVars, authVars>>

\* GET /api/crops/:id
GetCrop ==
  \E u \in Users, id \in CropIds :
    /\ IF Found(Crop, id, "farmer", u)
       THEN Respond(u, 200, {Doc("Crop", id)} \cup PopulatedFarm(Crop[id]))
       ELSE Respond(u, 404, {})
    /\ UNCHANGED <<Farm, Crop, Marketplace, engineVars, authVars>>

\* POST /api/crops
CreateCrop ==
  \E u \in Users, body \in CropBodies :
    LET availableArea == Farm[body.farm].area - UsedArea(CropsOf(body.farm))
        crop == [farm |-> body.farm, farmer |-> u, area |-> body.area,
                 status |-> body.status]
    IN  /\ IF body.area = 0
           THEN Respond(u, 400, {}) /\ UNCHANGED <<Farm, Crop>>
           ELSE IF ~Found(Farm, body.farm, "owner", u)
           THEN Respond(u, 404, {}) /\ UNCHANGED <<Farm, Crop>>
           ELSE IF body.area > availableArea
           THEN Respond(u, 400, {}) /\ UNCHANGED <<Farm, Crop>>
           ELSE /\ Len(Crop) < MaxCrops
                /\ Crop' = Append(Crop, crop)
                /\ Farm' = [Farm EXCEPT ![body.farm].crops = Append(@, Len(Crop) + 1)]
                /\ Respond(u, 201, {Doc("Crop", Len(Crop) + 1), Doc("Farm", body.farm)})
        /\ UNCHANGED <<Marketplace, engineVars, authVars>>

\* PUT /api/crops/:id
UpdateCrop ==
  \E u \in Users, id \in CropIds, body \in CropUpdates :
    LET crop          == Crop[id]
        otherCrops    == CropsOf(crop.farm) \ {id}
        availableArea == Farm[crop.farm].area - UsedArea(otherCrops)
        updatedCrop   == body @@ crop
    IN  /\ IF ~Found(Crop, id, "farmer", u)
           THEN Respond(u, 404, {}) /\ UNCHANGED Crop
           ELSE IF Has(body, "area") /\ body.area # crop.area /\ ~Live(Farm, crop.farm)
           THEN Respond(u, 500, {}) /\ UNCHANGED Crop     \* farm is null: farm.area throws
           ELSE IF Has(body, "area") /\ body.area # crop.area /\ body.area > availableArea
           THEN Respond(u, 400, {}) /\ UNCHANGED Crop
           ELSE /\ Crop' = [Crop EXCEPT ![id] = updatedCrop]
                /\ Respond(u, 200, {Doc("Crop", id)} \cup PopulatedFarm(updatedCrop))
        /\ UNCHANGED <<Farm, Marketplace, engineVars, authVars>>

\* $pull: { crops: id }
Pull(array, id) == SelectSeq(array, LAMBDA x : x # id)

\* DELETE /api/crops/:id
DeleteCrop ==
  \E u \in Users, id \in CropIds :
    /\ IF ~Found(Crop, id, "farmer", u)
       THEN Respond(u, 404, {}) /\ UNCHANGED <<Farm, Crop>>
       ELSE /\ Farm' = IF Live(Farm, Crop[id].farm)
                       THEN [Farm EXCEPT ![Crop[id].farm].crops = Pull(@, id)]
                       ELSE Farm
            /\ Crop' = [Crop EXCEPT ![id] = Deleted]
            /\ Respond(u, 200, {})
    /\ UNCHANGED <<Marketplace, engineVars, authVars>>

\* GET /api/crops/:id/analytics
CropAnalytics ==
  \E u \in Users, id \in CropIds :
    /\ IF Found(Crop, id, "farmer", u)
       THEN Respond(u, 200, {Doc("Crop", id)})
       ELSE Respond(u, 404, {})
    /\ UNCHANGED <<Farm, Crop, Marketplace, engineVars, authVars>>

ListingStatuses == {"active", "sold"}

\* the bodies of PUT /api/marketplace/:id, which no schema is applied to
ListingUpdates == Opt("seller", Users) \cup Opt("status", ListingStatuses)

\* POST /api/marketplace with a body the schema accepts; the status of the
\* new listing is the default of the Marketplace model
CreateListing ==
  \E u \in Users, default \in ListingStatuses :
    /\ Len(Marketplace) < MaxListings
    /\ Marketplace' = Append(Marketplace, [seller |-> u, status |-> default])
    /\ Respond(u, 201, {Doc("Marketplace", Len(Marketplace) + 1)})
    /\ UNCHANGED <<Farm, Crop, engineVars, authVars>>

\* PUT /api/marketplace/:id
UpdateListing ==
  \E u \in Users, id \in ListingIds, body \in ListingUpdates :
    /\ IF ~Found(Marketplace, id, "seller", u)
       THEN Respond(u, 404, {}) /\ UNCHANGED Marketplace
       ELSE IF Marketplace[id].status # "active"
       THEN Respond(u, 400, {}) /\ UNCHANGED Marketplace
       ELSE /\ Marketplace' = [Marketplace EXCEPT ![id] = body @@ @]
            /\ Respond(u, 200, {Doc("Marketplace", id)})
    /\ UNCHANGED <<Farm, Crop, engineVars, authVars>>

\* DELETE /api/marketplace/:id
DeleteListing ==
  \E u \in Users, id \in ListingIds :
    /\ IF ~Found(Marketplace, id, "seller", u)
       THEN Respond(u, 404, {}) /\ UNCHANGED Marketplace
       ELSE Marketplace' = [Marketplace EXCEPT ![id] = Deleted] /\ Respond(u, 200, {})
    /\ UNCHANGED <<Farm, Crop, engineVars, authVars>>

InitStore ==
  /\ emissionFactors = EmissionFactorTable
  /\ pc = "idle"
  /\ op = "none"
  /\ args = <<>>
  /\ result = NoResult
  /\ caller = 1
  /\ log = <<>>
  /\ alone = <<>>
  /\ EmptyStore
  /\ NoProvider

NextStore ==
  \/ GetFarms
  \/ GetFarm
  \/ CreateFarm
  \/ UpdateFarm
  \/ DeleteFarm
  \/ FarmStats
  \/ GetCrops
  \/ GetCrop
  \/ CreateCrop
  \/ UpdateCrop
  \/ DeleteCrop
  \/ CropAnalytics
  \/ CreateListing
  \/ UpdateListing
  \/ DeleteListing

SpecStore == InitStore /\ [][NextStore]_vars

(***************************************************************************)
(* Ownership: C20                                                          *)
(***************************************************************************)
\* the collection of a model and the field that names a document's owner
CollectionOf(model) ==
  CASE model = "Farm" -> Farm [] model = "Crop" -> Crop [] model = "Marketplace" -> Marketplace

OwnerField(model) ==
  CASE model = "Farm" -> "owner" [] model = "Crop" -> "farmer" [] model = "Marketplace" -> "seller"

\* before the request, the document existed and was owned by another user
\* than u
ForeignTo(u, model, id) ==
  /\ Live(CollectionOf(model), id)
  /\ CollectionOf(model)[id][OwnerField(model)] # u

\* C20: a request of user U to the farm and crop endpoints (read-one, update,
\* delete, stats, analytics, list) or to the update and delete endpoints of
\* marketplace listings returns the data of no farm, crop or listing that is
\* owned by another user, and neither modifies nor deletes one.
C20_OwnershipGuard ==
  [][/\ \A d \in res'.docs : ~ForeignTo(res'.user, d[1], d[2])
     /\ \A f \in 1 .. Len(Farm) : ForeignTo(res'.user, "Farm", f) => Farm'[f] = Farm[f]
     /\ \A c \in 1 .. Len(Crop) : ForeignTo(res'.user, "Crop", c) => Crop'[c] = Crop[c]
     /\ \A l \in 1 .. Len(Marketplace) :
          ForeignTo(res'.user, "Marketplace", l) => Marketplace'[l] = Marketplace[l]
    ]_vars

(***************************************************************************)
(* The response of POST /api/carbon/calculate: C26, C27                    *)
(***************************************************************************)
MetricNames == {"fertilizer", "pesticides", "fuel", "energy"}

\* C26: for non-negative fertilizerUse, pesticideUse, fuelUse and energyUse,
\* totalFootprint is the sum of the four metrics rounded to 2 decimals, every
\* percentageBreakdown entry lies in [0, 100], and the four entries sum to 100
\* (up to the rounding of the footprint) whenever an input is positive.
C26_BreakdownAddsUp ==
  (Returned("POST /api/carbon/calculate") /\ ~NegativeQuantity(args[1])) =>
    LET data     == result.data
        share    == data.percentageBreakdown
        sum      == SumOver(data.metrics, MetricNames)
        shareSum == SumOver([m \in MetricNames |-> share[m].num], MetricNames)
    IN  /\ Nearest(data.totalFootprint, sum, Scale)
        /\ \A m \in MetricNames :
             /\ share[m].num >= 0
             /\ share[m].num <= 100 * share[m].den
        /\ (\E field \in DOMAIN args[1] : args[1][field] > 0) =>
             /\ data.totalFootprint > 0
             /\ 2 * Abs(shareSum - 100 * data.totalFootprint) <= Scale

\* C27: the score of the response is 50 plus 5 for each of fertilizerUse and
\* pesticideUse that is zero or missing, so 50, 55 or 60, and the
\* recommendations contain the drip-irrigation, the crop-rotation and the
\* conservation-agriculture item, whatever else the body holds.
C27_ScoreAndFixedRecommendations ==
  Returned("POST /api/carbon/calculate") =>
    LET body   == args[1]
        bonus(field) == IF OrZero(body, field) = 0 THEN 5 ELSE 0
        titles == {result.data.recommendations[i].title :
                     i \in 1 .. Len(result.data.recommendations)}
    IN  /\ result.data.score = 50 + bonus("fertilizerUse") + bonus("pesticideUse")
        /\ result.data.score \in {50, 55, 60}
        /\ {"Install drip irrigation"} \cup AlwaysFired \subseteq titles

\* C27, witness: fertilizerUse is positive, pesticideUse is missing and
\* fuelUse and energyUse are set: the score is 55.
C27_OneBonus ==
  /\ Returned("POST /api/carbon/calculate")
  /\ args[1] = ("fertilizerUse" :> 100) @@ ("fuelUse" :> 1) @@ ("energyUse" :> 100)
  /\ result.data.score = 55
  /\ Len(result.data.recommendations) = 4

(***************************************************************************)
(* DynamicPricingService: getSuggestedPriceRange and generatePriceAlert.   *)
(* Prices are whole rupees.  The quality and the harvest multipliers are    *)
(* counted in twentieths (1.3 is 26), the organic premium in quarters      *)
(* (1.25 is 5) and the bulk discount in hundredths, so the product of a    *)
(* price and the four multipliers counts 1 / (20 * 4 * 100 * 20).          *)
(***************************************************************************)
baseMarketPrices ==
  [ wheat |-> 2000, rice |-> 3000, corn |-> 1500, tomato |-> 30, potato |-> 15,
    onion |-> 20, cabbage |-> 15, cauliflower |-> 25, brinjal |-> 35, chilli |-> 80,
    garlic |-> 100, turmeric |-> 60, sugarcane |-> 3500, cotton |-> 50,
    soybean |-> 4000, chickpea |-> 6000, lentil |-> 7000, groundnut |-> 8000,
    apple |-> 80, mango |-> 40, banana |-> 15, grape |-> 100 ]

\* a value that is a price or null
Null == [null |-> TRUE]
Price(n) == [price |-> n]

IsNull(value) == Has(value, "null")

\* crop.toLowerCase().trim() on the crop names the model uses
LowerTrim(crop) ==
  CASE crop = " Wheat " -> "wheat"
    [] crop = "POTATO" -> "potato"
    [] OTHER -> crop

\* this.baseMarketPrices[cropLower] || null
getMarketPrice(crop) ==
  LET cropLower == LowerTrim(crop)
  IN  IF Has(baseMarketPrices, cropLower) /\ baseMarketPrices[cropLower] # 0
      THEN Price(baseMarketPrices[cropLower])
      ELSE Null

qualityMultipliers == [premium |-> 26, grade_a |-> 23, grade_b |-> 20, standard |-> 17]

\* qualityMultipliers[quality] || 1.0
QualityMultiplier(quality) ==
  IF Has(qualityMultipliers, quality) THEN qualityMultipliers[quality] ELSE 20

\* the bulk discount
QuantityDiscount(quantity) ==
  IF quantity > 1000 THEN 95
  ELSE IF quantity > 500 THEN 97
  ELSE IF quantity > 100 THEN 98
  ELSE 100

\* the harvest timing adjustment
HarvestAdjustment(daysToHarvest) ==
  IF daysToHarvest >= 0 /\ daysToHarvest <= 7 THEN 21
  ELSE IF daysToHarvest >= 0 /\ daysToHarvest > 30 THEN 19
  ELSE 20

calculateDynamicPrice(crop, quantity, quality, organic, daysToHarvest) ==
  LET basePrice == getMarketPrice(crop)
  IN  IF IsNull(basePrice) THEN Null
      ELSE Price(MathRound(basePrice.price * QualityMultiplier(quality)
                             * (IF organic THEN 5 ELSE 4)
                             * QuantityDiscount(quantity)
                             * HarvestAdjustment(daysToHarvest),
                           20 * 4 * 100 * 20))

\* suggestedPrice || basePrice
OrElse(value, other) ==
  IF IsNull(value) \/ value.price = 0 THEN other.price ELSE value.price

getSuggestedPriceRange(crop, quantity, quality, organic) ==
  LET basePrice == getMarketPrice(crop)
  IN  IF IsNull(basePrice) THEN Null
      ELSE LET suggestedPrice == calculateDynamicPrice(crop, quantity, quality, organic, 0)
           IN  [ minPrice        |-> MathRound(basePrice.price * 85, 100),
                 suggestedPrice  |-> OrElse(suggestedPrice, basePrice),
                 maxPrice        |-> MathRound(basePrice.price * 125, 100),
                 baseMarketPrice |-> basePrice.price ]

\* the type of the alert; percentDiff is diff / marketPrice, and marketPrice
\* is positive, so percentDiff < 5 is diff < 5 * marketPrice
generatePriceAlert(crop, currentPrice, marketPrice) ==
  LET diff == (currentPrice - marketPrice) * 100
  IN  IF Abs(diff) < 5 * marketPrice THEN "neutral"
      ELSE IF diff > 15 * marketPrice THEN "overpriced"
      ELSE IF diff < -15 * marketPrice THEN "underpriced"
      ELSE IF diff > 5 * marketPrice THEN "slightly_high"
      ELSE "slightly_low"

\* the inputs: crops of the table (two of them as a seller may type them) and
\* one that is not in it; quantities around the discount steps
PricingCrops ==
  {crop \in DOMAIN baseMarketPrices : baseMarketPrices[crop] <= MaxBasePrice}
    \cup {" Wheat ", "POTATO", "quinoa"}
PricingQuantities == {1, 100, 101, 500, 501, 1000, 1001}
PricingQualities == DOMAIN qualityMultipliers \cup {"ungraded"}
\* market prices and the current prices from 25 percent below to 25 above
AlertMarketPrices == {20, 100}
AlertPrices(marketPrice) == (3 * marketPrice) \div 4 .. (5 * marketPrice) \div 4

InitPricing ==
  /\ emissionFactors = EmissionFactorTable
  /\ pc = "call"
  /\ result = NoResult
  /\ caller = 1
  /\ log = <<>>
  /\ alone = <<>>
  /\ EmptyStore
  /\ NoProvider
  /\ \/ /\ op = "getSuggestedPriceRange"
        /\ args \in PricingCrops \X PricingQuantities \X PricingQualities \X BOOLEAN
     \/ /\ op = "generatePriceAlert"
        /\ args \in UNION {{<<"wheat", currentPrice, marketPrice>> :
                               currentPrice \in AlertPrices(marketPrice)} :
                            marketPrice \in AlertMarketPrices}

SuggestedPriceRange ==
  Return("getSuggestedPriceRange",
         getSuggestedPriceRange(args[1], args[2], args[3], args[4]))

PriceAlert ==
  Return("generatePriceAlert", [type |-> generatePriceAlert(args[1], args[2], args[3])])

NextPricing ==
  \/ SuggestedPriceRange
  \/ PriceAlert

SpecPricing == InitPricing /\ [][NextPricing]_vars

(***************************************************************************)
(* DynamicPricingService: C29, C30                                         *)
(***************************************************************************)
\* C29: for a crop of baseMarketPrices and every quantity, quality and
\* organic flag, getSuggestedPriceRange returns minPrice <= suggestedPrice <=
\* maxPrice with minPrice = round(base * 0.85) and maxPrice = round(base *
\* 1.25); for a crop that is not in the table it returns null.
C29_SuggestedPriceWithinRange ==
  Returned("getSuggestedPriceRange") =>
    LET crop == LowerTrim(args[1])
    IN  IF crop \in DOMAIN baseMarketPrices
        THEN LET base == baseMarketPrices[crop]
             IN  /\ ~IsNull(result)
                 /\ Nearest(result.minPrice, base * 85, 100)
                 /\ Nearest(result.maxPrice, base * 125, 100)
                 /\ result.minPrice <= result.suggestedPrice
                 /\ result.suggestedPrice <= result.maxPrice
        ELSE IsNull(result)

\* C30: with d = (currentPrice - marketPrice) / marketPrice * 100 and
\* marketPrice > 0, the alert is neutral exactly when |d| < 5, overpriced
\* exactly when d > 15, underpriced exactly when d < -15, slightly_high
\* exactly when 5 <= d <= 15 and slightly_low exactly when -15 <= d <= -5; it
\* is never slightly_low or underpriced when currentPrice > marketPrice.
C30_AlertFollowsDifference ==
  Returned("generatePriceAlert") =>
    LET marketPrice == args[3]
        d100        == (args[2] - marketPrice) * 100     \* d * marketPrice
        type        == result.type
    IN  /\ type = "neutral" <=> Abs(d100) < 5 * marketPrice
        /\ type = "overpriced" <=> d100 > 15 * marketPrice
        /\ type = "underpriced" <=> d100 < -15 * marketPrice
        /\ type = "slightly_high" <=> (5 * marketPrice <= d100 /\ d100 <= 15 * marketPrice)
        /\ type = "slightly_low" <=> (-15 * marketPrice <= d100 /\ d100 <= -5 * marketPrice)
        /\ args[2] > marketPrice => type \notin {"slightly_low", "underpriced"}

(***************************************************************************)
(* The routes that call a third party: GET /api/weather/current            *)
(* (OpenWeather), POST /api/chatbot/message and POST /api/disease/analyze  *)
(* (Gemini).  A handler runs to its await; the third party then settles    *)
(* the call one way or another, which log records, and the handler         *)
(* answers.  process.env is part of the request.  Temperatures and wind    *)
(* speeds of OpenWeather count tenths.                                     *)
(***************************************************************************)
Resolves(data) == [kind |-> "resolves", data |-> data]
Throws(message) == [kind |-> "throws", message |-> message]

Json(status, success, rest) == [status |-> status, success |-> success] @@ rest

\* MOCK_WEATHER_DATA.current
MockCurrentWeather ==
  [ temperature |-> 28, condition |-> "Partly Cloudy", humidity |-> 65,
    windSpeed |-> 12, precipitation |-> 20, uvIndex |-> 7, location |-> "Local Area" ]

\* `Lat: ${lat}, Lon: ${lon}`
LatLon(query) == [Lat |-> query.lat, Lon |-> query.lon]

\* the requests: WEATHER_API_KEY as the environment has it, lat and lon
WeatherRequests ==
  {k @@ lat @@ lon : k \in Opt("WEATHER_API_KEY", {"demo-key", "owm-key"}),
                     lat \in Opt("lat", {"17.4"}), lon \in Opt("lon", {"78.5"})}

\* what axios.get settles with: a body of OpenWeather, a body without main,
\* or an error
OpenWeatherBodies ==
  {("main" :> [temp |-> t, humidity |-> 40]) @@ ("weather" :> <<[main |-> "Rain"]>>)
     @@ ("wind" :> [speed |-> w]) @@ r @@ n :
       t \in {284, 285, -16}, w \in {0, 25},
       r \in Opt("rain", {EmptyObj, "1h" :> 0, "1h" :> 5}),
       n \in Opt("name", {"Hyderabad"})}

OpenWeatherOutcomes ==
  {Resolves(b) : b \in OpenWeatherBodies}
    \cup {Resolves("cod" :> 200),
          Throws("Request failed with status code 401"),
          Throws("getaddrinfo ENOTFOUND api.openweathermap.org")}

\* the handler makes the call
CallsOpenWeather(request) ==
  /\ Has(request, "WEATHER_API_KEY") /\ request.WEATHER_API_KEY # "demo-key"
  /\ Has(request, "lat") /\ Has(request, "lon")

\* the try block reads data.main.temp: a body without main throws there
OpenWeatherFailed(outcome) ==
  outcome.kind = "throws" \/ ~Has(outcome.data, "main")

\* the data of the answer once the call has settled
WeatherDataOf(request, outcome) ==
  IF OpenWeatherFailed(outcome)
  THEN [MockCurrentWeather EXCEPT !.location = LatLon(request)]
  ELSE LET data == outcome.data
       IN  [ temperature   |-> MathRound(data.main.temp, 10),
             condition     |-> data.weather[1].main,
             humidity      |-> data.main.humidity,
             windSpeed     |-> MathRound(data.wind.speed * 36, 100),
             precipitation |-> IF Has(data, "rain") THEN OrZero(data.rain, "1h") ELSE 0,
             uvIndex       |-> 5,
             location      |-> IF Has(data, "name") THEN data.name ELSE LatLon(request) ]

\* a handler that answers a failed call with the error
WeatherErrorOnFailure(request, outcome) ==
  IF OpenWeatherFailed(outcome)
  THEN Json(500, FALSE, "message" :> "Error fetching weather data")
  ELSE Json(200, TRUE, "data" :> WeatherDataOf(request, outcome))

WeatherResponse(request, outcome) ==
  Json(200, TRUE, "data" :> WeatherDataOf(request, outcome))

\* a step of a handler that awaits a third party
Await(route) ==
  /\ pc = "call"
  /\ op = route
  /\ pc' = "await"
  /\ UNCHANGED <<emissionFactors, op, args, result, caller, log, alone, storeVars, authVars>>

\* a step of a handler that answers
Answer(route, from, response, outcomes) ==
  /\ pc = from
  /\ op = route
  /\ result' = response
  /\ log' = log \o outcomes
  /\ pc' = "return"
  /\ UNCHANGED <<emissionFactors, op, args, caller, alone, storeVars, authVars>>

\* GET /api/weather/current up to the call
GetCurrentWeather ==
  LET request == args[1]
  IN  IF CallsOpenWeather(request)
      THEN Await("GET /api/weather/current")
      ELSE Answer("GET /api/weather/current", "call",
                  Json(200, TRUE, "data" :>
                    [MockCurrentWeather EXCEPT !.location =
                       IF Has(request, "lat") /\ Has(request, "lon")
                       THEN LatLon(request) ELSE MockCurrentWeather.location]),
                  <<>>)

\* axios.get settles and the handler answers
OpenWeatherSettles ==
  \E outcome \in OpenWeatherOutcomes :
    Answer("GET /api/weather/current", "await",
           WeatherResponse(args[1], outcome), <<outcome>>)

\* MOCK_RESPONSES[language].default
MockDefaultResponses ==
  [ english |-> "I'm here to help with farming advice.",
    hindi   |-> "(the Hindi default)" ]

ChatLanguages == {"english", "hindi", "telugu", "tamil", "marathi"}

\* the requests: ENABLE_MOCK_GEMINI as the environment has it and the body
ChatRequests ==
  {m @@ b @@ l : m \in Opt("ENABLE_MOCK_GEMINI", {"true", "false"}),
                 b \in Opt("message", {"", "How do I grow rice?"}),
                 l \in Opt("language", ChatLanguages \cup {"french"})}

\* messageSchema.validate(req.body) reports an error
ChatBodyRejected(request) ==
  \/ ~Has(request, "message")
  \/ request.message = ""
  \/ Has(request, "language") /\ request.language \notin ChatLanguages

\* value.language, 'english' by default
ChatLanguage(request) == IF Has(request, "language") THEN request.language ELSE "english"

MockMode(request) ==
  Has(request, "ENABLE_MOCK_GEMINI") /\ request.ENABLE_MOCK_GEMINI = "true"

\* what model.generateContent settles with in generateFarmingAdvice
AdviceOutcomes ==
  {Resolves("Sow after the first rain."),
   Throws("[429 Too Many Requests] quota exceeded"),
   Throws("fetch failed")}

\* MOCK_RESPONSES[language]?.default || MOCK_RESPONSES.english.default
FallbackAdvice(language) ==
  IF Has(MockDefaultResponses, language) THEN MockDefaultResponses[language]
  ELSE MockDefaultResponses.english

\* the answer once generateFarmingAdvice has settled
ChatResponse(request, outcome) ==
  IF outcome.kind = "throws"
  THEN Json(200, TRUE, "data" :>
         [ response |-> FallbackAdvice(ChatLanguage(request)),
           language |-> ChatLanguage(request),
           model    |-> "Fallback",
           warning  |-> "Using fallback response. Gemini API unavailable." ])
  ELSE Json(200, TRUE, "data" :>
         [ response |-> outcome.data,
           language |-> ChatLanguage(request),
           model    |-> IF MockMode(request) THEN "Mock" ELSE "Gemini-powered" ])

\* POST /api/chatbot/message up to the call; in mock mode the service
\* returns its demo text without a call
PostChatbotMessage ==
  LET request == args[1]
  IN  IF ChatBodyRejected(request)
      THEN Answer("POST /api/chatbot/message", "call",
                  Json(400, FALSE, "message" :> "validation"), <<>>)
      ELSE IF MockMode(request)
      THEN Answer("POST /api/chatbot/message", "call",
                  ChatResponse(request, Resolves("This is a demo response for farming advice.")),
                  <<>>)
      ELSE Await("POST /api/chatbot/message")

\* generateContent settles; the service rethrows an error
AdviceSettles ==
  \E outcome \in AdviceOutcomes :
    Answer("POST /api/chatbot/message", "await",
           ChatResponse(args[1], outcome), <<outcome>>)

\* DISEASE_DATABASE: the names of its reports
DISEASE_DATABASE == [leaf_blight |-> "Leaf Blight", powdery_mildew |-> "Powdery Mildew"]

\* the requests: ENABLE_MOCK_GEMINI and the uploaded file
DiseaseRequests ==
  {m @@ f : m \in Opt("ENABLE_MOCK_GEMINI", {"true", "false"}),
            f \in Opt("file", {"leaf.jpg", "leaf.png", "receipt.jpg"})}

\* what analyzeCropDisease meets: the image cannot be read, generateContent
\* throws, or it resolves with a text (a report, an error report, no JSON)
AnalysisOutcomes ==
  {Resolves([disease |-> "Rust", confidence |-> 80]),
   Resolves([disease |-> "Healthy", confidence |-> 99]),
   Resolves([error |-> "true", message |-> "not a plant"]),
   Resolves([error |-> TRUE]),
   Resolves([text |-> "no JSON"]),
   Throws("ENOENT: no such file or directory"),
   Throws("[429 Too Many Requests] quota exceeded"),
   Throws("[401] API_KEY_INVALID"),
   Throws("Candidate was blocked due to SAFETY"),
   Throws("fetch failed")}

\* analyzeCropDisease throws: generateContent failed or the text has no JSON
AnalysisFailed(outcome) ==
  outcome.kind = "throws" \/ Has(outcome.data, "text")

\* _handleError(error).status
HandledStatus(outcome) ==
  IF outcome.kind # "throws" THEN 500
  ELSE CASE outcome.message = "[429 Too Many Requests] quota exceeded" -> 429
         [] outcome.message = "[401] API_KEY_INVALID" -> 401
         [] outcome.message = "Candidate was blocked due to SAFETY" -> 422
         [] OTHER -> 500

\* _getMockDiseaseResult()
MockDiseaseResult == [disease |-> "Leaf Blight (Demo)", confidence |-> 95]

\* the answer once analyzeCropDisease has settled
DiseaseResponse(request, outcome) ==
  IF AnalysisFailed(outcome)
  THEN Json(HandledStatus(outcome), FALSE, "message" :> "AI analysis failed")
  ELSE IF Has(outcome.data, "error")
  THEN Json(422, FALSE, "data" :> [report |-> Null, imageUrl |-> request.file])
  ELSE Json(200, TRUE, "data" :>
         [ report   |-> outcome.data,
           imageUrl |-> request.file,
           model    |-> IF MockMode(request) THEN "Demo Mode" ELSE "Gemini AI" ])

\* POST /api/disease/analyze up to the call; in mock mode the service
\* returns its demo result without a call
PostDiseaseAnalyze ==
  LET request == args[1]
  IN  IF ~Has(request, "file")
      THEN Answer("POST /api/disease/analyze", "call",
                  Json(400, FALSE, "message" :> "No image file provided"), <<>>)
      ELSE IF MockMode(request)
      THEN Answer("POST /api/disease/analyze", "call",
                  DiseaseResponse(request, Resolves(MockDiseaseResult)), <<>>)
      ELSE Await("POST /api/disease/analyze")

AnalysisSettles ==
  \E outcome \in AnalysisOutcomes :
    Answer("POST /api/disease/analyze", "await",
           DiseaseResponse(args[1], outcome), <<outcome>>)

InitProxy ==
  /\ emissionFactors = EmissionFactorTable
  /\ pc = "call"
  /\ result = NoResult
  /\ caller = 1
  /\ log = <<>>
  /\ alone = <<>>
  /\ EmptyStore
  /\ NoProvider
  /\ \/ /\ op = "GET /api/weather/current"
        /\ args \in {<<request>> : request \in WeatherRequests}
     \/ /\ op = "POST /api/chatbot/message"
        /\ args \in {<<request>> : request \in ChatRequests}
     \/ /\ op = "POST /api/disease/analyze"
        /\ args \in {<<request>> : request \in DiseaseRequests}

NextProxy ==
  \/ GetCurrentWeather
  \/ OpenWeatherSettles
  \/ PostChatbotMessage
  \/ AdviceSettles
  \/ PostDiseaseAnalyze
  \/ AnalysisSettles

SpecProxy == InitProxy /\ [][NextProxy]_vars

(***************************************************************************)
(* Fallbacks: C21, C22                                                     *)
(***************************************************************************)
\* the call to the third party failed
ThirdPartyFailed == log # <<>> /\ log[1].kind = "throws"

\* C21: when the OpenWeather call of GET /api/weather/current fails, or the
\* Gemini call of POST /api/chatbot/message fails, the handler answers with
\* status 200, success = true and the hardcoded fallback data.
C21_MockFallback ==
  /\ (Returned("GET /api/weather/current") /\ ThirdPartyFailed) =>
       /\ result.status = 200 /\ result.success
       /\ result.data = [MockCurrentWeather EXCEPT !.location = LatLon(args[1])]
  /\ (Returned("POST /api/chatbot/message") /\ ThirdPartyFailed) =>
       /\ result.status = 200 /\ result.success
       /\ result.data.response \in {MockDefaultResponses[l] : l \in DOMAIN MockDefaultResponses}
       /\ result.data.model = "Fallback"

\* C21, witness: Gemini fails on a message in Hindi and the answer is the
\* Hindi default.
C21_HindiFallback ==
  /\ Returned("POST /api/chatbot/message")
  /\ ThirdPartyFailed
  /\ ChatLanguage(args[1]) = "hindi"
  /\ result.success
  /\ result.data.response = MockDefaultResponses.hindi

\* C22: when the Gemini analysis of the uploaded image fails,
\* POST /api/disease/analyze answers with status 200, success = true and a
\* report of the mock disease database.
C22_DiseaseFallback ==
  (Returned("POST /api/disease/analyze") /\ ThirdPartyFailed) =>
    /\ result.status = 200 /\ result.success
    /\ Has(result, "data")
    /\ result.data.report \in {DISEASE_DATABASE[d] : d \in DOMAIN DISEASE_DATABASE}

(***************************************************************************)
(* Farms and their crops: C23, C24, C25                                    *)
(***************************************************************************)
\* the elements of an array
Elements(array) == {array[i] : i \in 1 .. Len(array)}

\* C23: in every state reachable by POST, PUT and DELETE of crops and PUT of
\* farms, the areas of the crops that reference a farm sum to no more than
\* the area of that farm.
C23_FarmCapacity ==
  \A f \in 1 .. Len(Farm) :
    Live(Farm, f) => UsedArea(CropsOf(f)) <= Farm[f].area

\* C24: in every reachable state every crop whose status is planned, sown,
\* growing or ready_to_harvest references a farm that exists.
C24_ActiveCropsHaveAFarm ==
  \A c \in 1 .. Len(Crop) :
    Live(Crop, c) /\ Crop[c].status \in ActiveStatuses => Live(Farm, Crop[c].farm)

\* C25: after any sequence of crop create, update and delete requests, a crop
\* id is in the crops array of a farm exactly if that crop exists and its
\* farm field is that farm, and the farm of every crop is owned by the
\* farmer of the crop.
C25_FarmCropsConsistent ==
  /\ \A f \in 1 .. Len(Farm) : \A c \in CropIds :
       Live(Farm, f) => (c \in Elements(Farm[f].crops) <=> c \in CropsOf(f))
  /\ \A c \in 1 .. Len(Crop) :
       Live(Crop, c) => Found(Farm, Crop[c].farm, "owner", Crop[c].farmer)

(***************************************************************************)
(* The AuthProvider of the client: loadUser on mount, login, register and  *)
(* logout, each await a point where the other calls may run                *)
(***************************************************************************)
MaxAuthCalls == 2

Accounts == [email : {"asha@example.com", "ravi@example.com"}]

\* the token the server issues to an account, and one it no longer accepts
TokenOf(account) == [jwt |-> account.email]
ExpiredToken == [jwt |-> "expired"]

\* localStorage.getItem(key)
GetItem(key) == IF Has(localStorage, key) THEN localStorage[key] ELSE Null

\* localStorage after setItem(key, value) and after removeItem(key)
SetItem(key, value) == (key :> value) @@ localStorage
RemoveItem(key) == [k \in DOMAIN localStorage \ {key} |-> localStorage[k]]

\* what authAPI.getMe() settles with when the request carried the token
\* sent: request() throws on a response that is not ok or on a network error
GetMeOutcomes(sent) ==
  {Throws("Request failed with status 401")}
    \cup {Resolves([success |-> TRUE])}
    \cup {Resolves([success |-> TRUE, data |-> a]) : a \in {x \in Accounts : TokenOf(x) = sent}}

\* what authAPI.login and authAPI.register settle with for an account
AuthOutcomes(account) ==
  { Throws("Invalid credentials"),
    Resolves([success |-> TRUE, data |-> [user |-> account]]),
    Resolves([success |-> TRUE, data |-> [user |-> account, token |-> TokenOf(account)]]) }

\* response.data || response.user || response
UserDataOf(response) ==
  IF Has(response, "data") THEN response.data
  ELSE IF Has(response, "user") THEN response.user
  ELSE response

extractAuthData(response) ==
  LET pick(obj, key, else) == IF Has(obj, key) THEN obj[key] ELSE else
      direct == [ user  |-> pick(response, "user", Null),
                  token |-> pick(response, "token", Null) ]
      inData == IF Has(response, "data")
                THEN [ user  |-> pick(response.data, "user", direct.user),
                       token |-> pick(response.data, "token", direct.token) ]
                ELSE direct
      nested == IF Has(response, "data") /\ Has(response.data, "data")
                THEN [ user  |-> pick(response.data.data, "user", inData.user),
                       token |-> pick(response.data.data, "token", inData.token) ]
                ELSE inData
  IN  [ user  |-> IF IsNull(nested.user) /\ Has(response, "email")
                  THEN response ELSE nested.user,
        token |-> nested.token ]

\* the AuthProvider has rendered once, its effect has not run; a token of an
\* earlier visit may be in localStorage
InitAuth ==
  /\ emissionFactors = EmissionFactorTable
  /\ pc = "idle"
  /\ op = "none"
  /\ args = <<>>
  /\ result = NoResult
  /\ caller = 1
  /\ log = <<>>
  /\ alone = <<>>
  /\ EmptyStore
  /\ user = Null
  /\ token = Null
  /\ loading = TRUE
  /\ localStorage \in Opt("token", {TokenOf(a) : a \in Accounts} \cup {ExpiredToken})
  /\ loadUser = [pc |-> "mount"]
  /\ calls = <<>>
  /\ session = Null

\* loadUser() up to its await, or to its end when no token is stored
LoadUserMount ==
  /\ loadUser.pc = "mount"
  /\ LET storedToken == GetItem("token")
     IN  IF ~IsNull(storedToken)
         THEN /\ token' = storedToken
              /\ loadUser' = [pc |-> "getMe", sent |-> storedToken]
              /\ UNCHANGED loading
         ELSE /\ loading' = FALSE
              /\ loadUser' = [pc |-> "settled"]
              /\ UNCHANGED token
  /\ UNCHANGED <<user, localStorage, calls, session, engineVars, storeVars>>

\* loadUser() from the moment authAPI.getMe() settles
GetMeSettles ==
  /\ loadUser.pc = "getMe"
  /\ \E outcome \in GetMeOutcomes(loadUser.sent) :
       IF outcome.kind = "resolves" /\ Has(UserDataOf(outcome.data), "email")
       THEN /\ user' = UserDataOf(outcome.data)
            /\ UNCHANGED <<token, localStorage>>
       ELSE /\ localStorage' = RemoveItem("token")
            /\ token' = Null
            /\ user' = Null
  /\ loading' = FALSE
  /\ loadUser' = [pc |-> "settled"]
  /\ UNCHANGED <<calls, session, engineVars, storeVars>>

\* login(...) or register(...) up to its await
Authenticate(fn, account) ==
  /\ loadUser.pc # "mount"
  /\ Len(calls) < MaxAuthCalls
  /\ loading' = TRUE
  /\ calls' = Append(calls, [fn |-> fn, account |-> account, pc |-> "await"])
  /\ session' = Null
  /\ UNCHANGED <<user, token, localStorage, loadUser, engineVars, storeVars>>

\* call i, of login(...) or register(...), from the moment the request
\* settles
AuthSettles(fn, i) ==
  /\ calls[i].fn = fn
  /\ calls[i].pc = "await"
  /\ \E outcome \in AuthOutcomes(calls[i].account) :
       LET extracted == IF outcome.kind = "resolves"
                        THEN extractAuthData(outcome.data)
                        ELSE [user |-> Null, token |-> Null]
           userData  == extracted.user
           userToken == extracted.token
       IN  IF outcome.kind = "throws" \/ IsNull(userData) \/ IsNull(userToken)
           THEN /\ calls' = [calls EXCEPT ![i].pc = "rejected"]
                /\ UNCHANGED <<user, token, localStorage, session>>
           ELSE /\ user' = userData
                /\ token' = userToken
                /\ localStorage' = SetItem("token", userToken)
                /\ calls' = [calls EXCEPT ![i].pc = "resolved"]
                /\ session' = [user |-> userData, token |-> userToken]
  /\ loading' = FALSE
  /\ UNCHANGED <<loadUser, engineVars, storeVars>>

Login == \E account \in Accounts : Authenticate("login", account)

LoginSettles == \E i \in 1 .. Len(calls) : AuthSettles("login", i)

Register == \E account \in Accounts : Authenticate("register", account)

RegisterSettles == \E i \in 1 .. Len(calls) : AuthSettles("register", i)

Logout ==
  /\ loadUser.pc # "mount"
  /\ user' = Null
  /\ token' = Null
  /\ localStorage' = RemoveItem("token")
  /\ session' = Null
  /\ UNCHANGED <<loading, loadUser, calls, engineVars, storeVars>>

NextAuth ==
  \/ LoadUserMount
  \/ GetMeSettles
  \/ Login
  \/ LoginSettles
  \/ Register
  \/ RegisterSettles
  \/ Logout

SpecAuth == InitAuth /\ [][NextAuth]_vars

\* C28: once login() or register() has resolved, the user and the token of
\* the context and the token in localStorage stay at the values that call
\* set until logout(), login() or register() is invoked, also while the
\* getMe request of loadUser() is in flight.
C28_SessionKept ==
  ~IsNull(session) =>
    /\ user = session.user
    /\ token = session.token
    /\ GetItem("token") = session.token

====
